---- MODULE Spec2Model ----
(***************************************************************************)
(* LangGraph-Sandbox: the artifact store (content-addressed ingest into a  *)
(* blob directory and a SQLite catalog) and the session manager that runs  *)
(* code in per-session containers and captures the files it produces.      *)
(*                                                                         *)
(* Host threads call the public operations.  Each thread is at one place   *)
(* in one operation; the steps of ingest_files are the places where        *)
(* another thread, or a failure, can come between.                         *)
(***************************************************************************)
EXTENDS Integers, Sequences, FiniteSets, Bags, TLC

Threads == {"t1", "t2"}
Keys == {"s1", "s2"}

\* None, where an id or a digest is expected.
NULL == <<"None">>

(***************************************************************************)
(* Files.  A file's content is one of a few byte strings; content c has    *)
(* size c (in MiB, the unit of MAX_ARTIFACT_SIZE_MB), so the contents are  *)
(* the sizes up to one above the cap.  NoFile marks a path that has no     *)
(* regular file.                                                           *)
(***************************************************************************)
MAX_ARTIFACT_SIZE_MB == 2

NoFile == 0
Contents == 1..(MAX_ARTIFACT_SIZE_MB + 1)

Size(c) == c

\* sha-256 of a content: distinct contents have distinct digests.
Sha(c) == <<"sha256", c>>

Shas == {Sha(c) : c \in Contents}

max_bytes == MAX_ARTIFACT_SIZE_MB

\* Relative paths under /session, as the snapshots list them.
Rels == {"artifacts/a", "artifacts/d/a", "artifacts/d/b"}
Bases == {"a", "b"}

\* os.path.basename / Path.name on the relative paths above.
Base(rel) == IF rel = "artifacts/d/b" THEN "b" ELSE "a"

\* sorted() on the relative paths: their position in string order.
RelOrder == <<"artifacts/a", "artifacts/d/a", "artifacts/d/b">>

\* Host and container paths: a staging directory of one thread's call, the
\* host session directory of a key (BIND), the tmpfs of a key's container.
StagePath(t, b) == <<"stage", t, b>>
BindPath(k, rel) == <<"bind", k, rel>>
TmpfsPath(k, rel) == <<"tmpfs", k, rel>>

StagePaths == {StagePath(t, b) : t \in Threads, b \in Bases}
BindPaths == {BindPath(k, r) : k \in Keys, r \in Rels}
TmpfsPaths == {TmpfsPath(k, r) : k \in Keys, r \in Rels}
AllPaths == StagePaths \cup BindPaths \cup TmpfsPaths

\* Path.name
PathName(p) == IF p[1] = "stage" THEN p[3] ELSE Base(p[3])

VARIABLES
    fs,          \* path -> content, or NoFile
    blobs,       \* sha -> "none" | "part" | "full": the file at the blob path
    artifacts,   \* committed rows of table artifacts
    links,       \* committed rows of table links (a bag: rows can repeat)
    next_art,    \* how many artifact ids _gen_artifact_id has handed out
    ing,         \* per thread: its ingest_files call
    txn,         \* per thread: rows inserted on its connection, not committed
    session_storage,  \* SessionManager.session_storage: "TMPFS" or "BIND"
    sessions,    \* SessionManager.sessions: key -> SessionInfo
    containers,  \* the container runtime: name sbox-<key> -> container
    next_cid,    \* how many containers the runtime has created
    now,         \* time.time(), the idle timeout being one unit
    evicted,     \* the sessions the latest call of start swept
    ex,          \* per thread: its SessionManager.exec call
    n_exec,      \* exec calls made so far
    env_secret,  \* os.getenv("ARTIFACTS_SECRET"), or NoSecret
    rand_n,      \* how many secrets secrets.token_urlsafe has generated
    tokens,      \* the tokens create_token has returned
    forged,      \* other token strings that clients present
    last,        \* the latest verify_token call or download request
    dataset_access, \* cfg.dataset_access: "API" or "LOCAL_RO"
    cache_file,  \* the entries in the session's dataset cache file
    cop,         \* per thread: its add_entry call
    lp,          \* the load_pending_datasets call
    data_fs,     \* container path of a dataset file -> bytes, or NoFile
    GLOBAL_NS,   \* container id -> the names bound in its REPL's namespace
    reply,       \* the latest response of the REPL's /exec
    cache_dir,   \* the cache file and the temporary files beside it -> text
    cio,         \* per thread: its _write_cache_data or _read_cache_data call
    xp,          \* per thread: its SessionManager.export_file call
    exports,     \* the files of ./exports/modified_datasets: <<name, content>>
    polled,      \* container id -> the /health poll of the start that created it
    cfc,         \* thread -> its call of _copy_from_container
    data_cid,    \* the id of the container that data_fs was staged into
    ns_values,   \* container id -> name -> value: GLOBAL_NS with its values
    ns_user      \* container id -> name -> value, as the last user code left it

storeVars == <<blobs, artifacts, links, next_art>>
ingVars == <<ing, txn>>
mgrVars == <<session_storage, sessions, containers, next_cid, now, evicted>>
execVars == <<ex, n_exec>>
apiVars == <<env_secret, rand_n, tokens, forged, last>>
dataVars == <<dataset_access, cache_file, cop, lp, data_fs>>
replVars == <<GLOBAL_NS, reply>>
cacheIoVars == <<cache_dir, cio>>
exportVars == <<xp, exports>>
healthVars == <<polled>>
copyVars == <<cfc>>
selVars == <<data_cid>>
nsVars == <<ns_values, ns_user>>
laterVars == <<healthVars, copyVars, selVars, nsVars>>
moreVars == <<replVars, cacheIoVars, exportVars, laterVars>>
serviceVars == <<apiVars, dataVars, moreVars>>

vars == <<fs, blobs, artifacts, links, next_art, ing, txn,
          session_storage, sessions, containers, next_cid, now, evicted,
          ex, n_exec, env_secret, rand_n, tokens, forged, last,
          dataset_access, cache_file, cop, lp, data_fs, moreVars>>

\* The token service and the download API at rest: no secret in the
\* environment, nothing issued, nothing requested.
NoSecret == ""
NoCall == [op |-> "none"]

\* Dataset ids, and the directories of the container that hold dataset
\* files: cfg.container_data_staged and the data folder of the session mount.
DsIds == {"d1", "d2"}
DataDirs == {"/data", "/session/data"}
DataPaths == DataDirs \X DsIds
IdleCop == [pc |-> "idle"]
IdleLoad == [pc |-> "idle"]

\* The REPL server of a container: the namespace its process starts with,
\* and the response before any request.
FreshNs == {"__name__"}
NoReply == [ok |-> TRUE, stdout |-> <<>>, error |-> ""]

\* cache_file_path, and the files tempfile.NamedTemporaryFile makes in its
\* directory, one per call in progress.
CachePath == <<"cache">>
TmpPathInPlace(t) == CachePath
TmpPath(t) == <<"tmp", t>>
CacheDirPaths == {CachePath} \cup {<<"tmp", t>> : t \in Threads}

\* No file at a path of the session directory.
Absent == <<"absent">>
IdleIo == [pc |-> "idle", text |-> <<>>, kind |-> "", data |-> <<>>]

\* No path copied out of a container.
NoCopy == <<"none">>
IdleXp ==
    [pc |-> "idle", key |-> "", path |-> <<>>, known |-> FALSE, copied |-> NoCopy,
     success |-> FALSE, error |-> "", n |-> 0]

\* No REPL has run any code; the session has no cache file yet; nothing has
\* been exported.
\* No copy in progress.
IdleCopy == [pc |-> "idle", attempt |-> 0, strategy |-> 1, tries |-> <<0, 0, 0>>]

InitMore ==
    /\ GLOBAL_NS = <<>>
    /\ reply = NoReply
    /\ cache_dir = [p \in CacheDirPaths |-> Absent]
    /\ cio = [t \in Threads |-> IdleIo]
    /\ xp = [t \in Threads |-> IdleXp]
    /\ exports = {}
    /\ polled = <<>>
    /\ cfc = [t \in Threads |-> IdleCopy]
    /\ data_cid = 0
    /\ ns_values = <<>>
    /\ ns_user = <<>>

InitService ==
    /\ env_secret = NoSecret
    /\ rand_n = 0
    /\ tokens = {}
    /\ forged = {}
    /\ last = NoCall
    /\ dataset_access = "API"
    /\ cache_file = <<>>
    /\ cop = [t \in Threads |-> IdleCop]
    /\ lp = IdleLoad
    /\ data_fs = [p \in DataPaths |-> NoFile]
    /\ InitMore

ArtRow(id, sha, size, filename) ==
    [id |-> id, sha256 |-> sha, size |-> size, filename |-> filename]

LinkRow(artifact_id, session_id) ==
    [artifact_id |-> artifact_id, session_id |-> session_id]

EmptyTxn == [arts |-> {}, links |-> EmptyBag]

IdleIng ==
    [pc |-> "idle", paths |-> <<>>, session_id |-> "", size |-> 0,
     sha |-> NULL, artifact_id |-> NULL, descriptors |-> <<>>]

\* Path.is_file()
is_file(f, p) == f[p] # NoFile

\* _blob_path_for_sha(...).exists()
blob_exists(sha) == blobs[sha] # "none"

\* SELECT id FROM artifacts WHERE sha256 = ?  (committed rows and the
\* connection's own uncommitted ones)
SelectBySha(t, sha) == {r \in artifacts \cup txn[t].arts : r.sha256 = sha}

\* No other connection holds the database write lock.
WriteLockFree(t) == \A u \in Threads \ {t} : txn[u] = EmptyTxn

\* The descriptor of a file over the size cap.
TooLargeDesc(src, size) ==
    [id |-> NULL, name |-> PathName(src), size |-> size, sha256 |-> NULL,
     error |-> "File too large"]

Desc(id, src, size, sha) ==
    [id |-> id, name |-> PathName(src), size |-> size, sha256 |-> sha]

\* ingest_files, its first lines: the paths that are files now.
IngestEnter(files, sid) ==
    [IdleIng EXCEPT !.pc = "stat",
                    !.paths = SelectSeq(files, LAMBDA p : is_file(fs, p)),
                    !.session_id = sid]

\* An exception leaves the `with conn` block: the connection rolls back.
Raise(t) ==
    /\ ing' = [ing EXCEPT ![t].pc = "failed"]
    /\ txn' = [txn EXCEPT ![t] = EmptyTxn]

\* A size check that turns away a file of exactly the cap.
IngestStatStrict(t) ==
    /\ ing[t].pc = "stat"
    /\ ing[t].paths # <<>>
    /\ LET src == Head(ing[t].paths)
           size == Size(fs[src])
       IN  IF ~is_file(fs, src)
           THEN Raise(t)
           ELSE /\ txn' = txn
                /\ IF size >= max_bytes
                   THEN ing' = [ing EXCEPT
                            ![t].paths = Tail(@),
                            ![t].descriptors = Append(@, TooLargeDesc(src, size))]
                   ELSE ing' = [ing EXCEPT
                            ![t].pc = "select",
                            ![t].size = size,
                            ![t].sha = Sha(fs[src])]
    /\ UNCHANGED <<fs, storeVars>>
    /\ UNCHANGED <<mgrVars, execVars>>
    /\ UNCHANGED serviceVars

\* for src in new_paths: stat, the size cap, the hash.
IngestStat(t) ==
    /\ ing[t].pc = "stat"
    /\ ing[t].paths # <<>>
    /\ LET src == Head(ing[t].paths)
           size == Size(fs[src])
       IN  IF ~is_file(fs, src)
           THEN Raise(t)
           ELSE /\ txn' = txn
                /\ IF size > max_bytes
                   THEN ing' = [ing EXCEPT
                            ![t].paths = Tail(@),
                            ![t].descriptors = Append(@, TooLargeDesc(src, size))]
                   ELSE ing' = [ing EXCEPT
                            ![t].pc = "select",
                            ![t].size = size,
                            ![t].sha = Sha(fs[src])]
    /\ UNCHANGED <<fs, storeVars>>
    /\ UNCHANGED <<mgrVars, execVars>>
    /\ UNCHANGED serviceVars

\* A copy that writes nothing.
CopyBytesSkips(sha) == blobs

\* What _copy_bytes leaves at the blob path.
CopyBytes(sha) == IF blob_exists(sha) THEN blobs ELSE [blobs EXCEPT ![sha] = "full"]

\* _upsert_artifact: the SELECT, and the branch that reuses the row.
UpsertSelect(t) ==
    /\ ing[t].pc = "select"
    /\ LET rows == SelectBySha(t, ing[t].sha)
       IN  IF rows # {}
           THEN /\ blobs' = CopyBytes(ing[t].sha)
                /\ ing' = [ing EXCEPT ![t].pc = "link",
                                      ![t].artifact_id = (CHOOSE r \in rows : TRUE).id]
           ELSE /\ blobs' = blobs
                /\ ing' = [ing EXCEPT ![t].pc = "copy"]
    /\ UNCHANGED <<fs, artifacts, links, next_art, txn>>
    /\ UNCHANGED <<mgrVars, execVars>>
    /\ UNCHANGED serviceVars

\* _upsert_artifact, new artifact: write the blob.
UpsertCopy(t) ==
    /\ ing[t].pc = "copy"
    /\ blobs' = CopyBytes(ing[t].sha)
    /\ ing' = [ing EXCEPT ![t].pc = "insert"]
    /\ UNCHANGED <<fs, artifacts, links, next_art, txn>>
    /\ UNCHANGED <<mgrVars, execVars>>
    /\ UNCHANGED serviceVars

\* _gen_artifact_id: "art_" and a part of a fresh uuid, here the n-th one.
ArtId(n) == <<"art_", n>>

\* A schema whose sha256 column is not UNIQUE.
ShaTakenNever(sha) == FALSE

\* sha256 TEXT NOT NULL UNIQUE: a committed row already has this sha.
ShaTaken(sha) == \E r \in artifacts : r.sha256 = sha

\* _upsert_artifact: a fresh id and the INSERT.
UpsertInsert(t) ==
    /\ ing[t].pc = "insert"
    /\ WriteLockFree(t)
    /\ next_art' = next_art + 1
    /\ IF ShaTaken(ing[t].sha)
       THEN Raise(t)
       ELSE /\ txn' = [txn EXCEPT ![t].arts = @ \cup
                        {ArtRow(ArtId(next_art + 1), ing[t].sha, ing[t].size,
                                PathName(Head(ing[t].paths)))}]
            /\ ing' = [ing EXCEPT ![t].pc = "commit_art",
                                  ![t].artifact_id = ArtId(next_art + 1)]
    /\ UNCHANGED <<fs, blobs, artifacts, links>>
    /\ UNCHANGED <<mgrVars, execVars>>
    /\ UNCHANGED serviceVars

\* conn.commit(): the connection's rows become durable.
Commit(t) ==
    /\ artifacts' = artifacts \cup txn[t].arts
    /\ links' = links (+) txn[t].links
    /\ txn' = [txn EXCEPT ![t] = EmptyTxn]

\* _upsert_artifact: conn.commit() after the INSERT.
UpsertCommit(t) ==
    /\ ing[t].pc = "commit_art"
    /\ Commit(t)
    /\ ing' = [ing EXCEPT ![t].pc = "link"]
    /\ UNCHANGED <<fs, blobs, next_art>>
    /\ UNCHANGED <<mgrVars, execVars>>
    /\ UNCHANGED serviceVars

\* The source removed as soon as the link is inserted, before the commit.
InsertLinkDeleting(t) ==
    /\ ing[t].pc = "link"
    /\ WriteLockFree(t)
    /\ txn' = [txn EXCEPT ![t].links =
                  @ (+) SetToBag({LinkRow(ing[t].artifact_id, ing[t].session_id)})]
    /\ ing' = [ing EXCEPT ![t].pc = "commit_link"]
    /\ fs' = [fs EXCEPT ![Head(ing[t].paths)] = NoFile]
    /\ UNCHANGED storeVars
    /\ UNCHANGED <<mgrVars, execVars>>
    /\ UNCHANGED serviceVars

\* INSERT INTO links.
InsertLink(t) ==
    /\ ing[t].pc = "link"
    /\ WriteLockFree(t)
    /\ txn' = [txn EXCEPT ![t].links =
                  @ (+) SetToBag({LinkRow(ing[t].artifact_id, ing[t].session_id)})]
    /\ ing' = [ing EXCEPT ![t].pc = "commit_link"]
    /\ UNCHANGED <<fs, storeVars>>
    /\ UNCHANGED <<mgrVars, execVars>>
    /\ UNCHANGED serviceVars

\* conn.commit() after the link.
CommitLink(t) ==
    /\ ing[t].pc = "commit_link"
    /\ Commit(t)
    /\ ing' = [ing EXCEPT ![t].pc = "delete"]
    /\ UNCHANGED <<fs, blobs, next_art>>
    /\ UNCHANGED <<mgrVars, execVars>>
    /\ UNCHANGED serviceVars

\* _safe_delete
SafeDelete(f, p) == [f EXCEPT ![p] = NoFile]

\* The descriptor, _safe_delete(src), descriptors.append(desc).
FinishFile(t) ==
    /\ ing[t].pc = "delete"
    /\ LET src == Head(ing[t].paths)
       IN  /\ fs' = SafeDelete(fs, src)
           /\ ing' = [ing EXCEPT
                  ![t].pc = "stat",
                  ![t].paths = Tail(@),
                  ![t].descriptors =
                      Append(@, Desc(ing[t].artifact_id, src, ing[t].size, ing[t].sha))]
    /\ UNCHANGED <<storeVars, txn>>
    /\ UNCHANGED <<mgrVars, execVars>>
    /\ UNCHANGED serviceVars

\* The loop is over: the `with` block commits, ingest_files returns.
IngestReturn(t) ==
    /\ ing[t].pc = "stat"
    /\ ing[t].paths = <<>>
    /\ Commit(t)
    /\ ing' = [ing EXCEPT ![t].pc = "returned"]
    /\ UNCHANGED <<fs, blobs, next_art>>
    /\ UNCHANGED <<mgrVars, execVars>>
    /\ UNCHANGED serviceVars

\* The steps in which the file system or the database can fail.
FalliblePcs == {"copy", "insert", "commit_art", "link", "commit_link"}

\* An I/O or database error: the exception leaves ingest_files.  A copy that
\* fails may leave a part of the blob behind.
IngestRaise(t) ==
    /\ ing[t].pc \in FalliblePcs
    /\ Raise(t)
    /\ \/ blobs' = blobs
       \/ /\ ing[t].pc = "copy"
          /\ ~blob_exists(ing[t].sha)
          /\ blobs' = [blobs EXCEPT ![ing[t].sha] = "part"]
    /\ UNCHANGED <<fs, artifacts, links, next_art>>
    /\ UNCHANGED <<mgrVars, execVars>>
    /\ UNCHANGED serviceVars

(***************************************************************************)
(* The store on its own: callers put files in their staging directories    *)
(* and call ingest_files on lists of them.                                 *)
(***************************************************************************)
MaxFiles == 2

FileLists(t) ==
    UNION {[1..n -> {StagePath(t, b) : b \in Bases}] : n \in 1..MaxFiles}

\* The session a caller ingests for.
SessionOf(t) == IF t = "t1" THEN "s1" ELSE "s2"

\* A caller writes a file into its staging directory.
HostWrite(t, b, c) ==
    /\ ing[t].pc = "idle"
    /\ fs[StagePath(t, b)] = NoFile
    /\ fs' = [fs EXCEPT ![StagePath(t, b)] = c]
    /\ UNCHANGED <<storeVars, ingVars>>
    /\ UNCHANGED <<mgrVars, execVars>>
    /\ UNCHANGED serviceVars

\* A caller hands ingest_files the files of its staging directory, in any
\* order; a path can come twice.
CallIngest(t, files, sid) ==
    /\ ing[t].pc = "idle"
    /\ {files[i] : i \in DOMAIN files} =
           {p \in {StagePath(t, b) : b \in Bases} : is_file(fs, p)}
    /\ ing' = [ing EXCEPT ![t] = IngestEnter(files, sid)]
    /\ UNCHANGED <<fs, storeVars, txn>>
    /\ UNCHANGED <<mgrVars, execVars>>
    /\ UNCHANGED serviceVars

InitStore ==
    /\ blobs = [s \in Shas |-> "none"]
    /\ artifacts = {}
    /\ links = EmptyBag
    /\ next_art = 0
    /\ ing = [t \in Threads |-> IdleIng]
    /\ txn = [t \in Threads |-> EmptyTxn]

NextIngest ==
    \/ \E t \in Threads, b \in Bases, c \in Contents : HostWrite(t, b, c)
    \/ \E t \in Threads : \E files \in FileLists(t), sid \in {SessionOf(t)} :
           CallIngest(t, files, sid)
    \/ \E t \in Threads : IngestStat(t)
    \/ \E t \in Threads : UpsertSelect(t)
    \/ \E t \in Threads : UpsertCopy(t)
    \/ \E t \in Threads : UpsertInsert(t)
    \/ \E t \in Threads : UpsertCommit(t)
    \/ \E t \in Threads : InsertLink(t)
    \/ \E t \in Threads : CommitLink(t)
    \/ \E t \in Threads : FinishFile(t)
    \/ \E t \in Threads : IngestReturn(t)
    \/ \E t \in Threads : IngestRaise(t)

(***************************************************************************)
(* The session manager.  start and stop are single steps; exec is a        *)
(* sequence of steps, between which other threads run.                     *)
(***************************************************************************)
\* The idle timeout (45 minutes in the source), taken as the unit of the
\* clock that sweeps read.
IDLE_TIMEOUT_SECS == 1

\* httpx.Client(timeout=timeout + 5): how long past the timeout the host
\* waits for the REPL's response, in the seconds of exec's timeout argument.
HTTP_MARGIN_SECS == 5

MaxNow == 2
MaxContainers == 2
MaxExecs == 2
MaxDur == 7

\* The timeout arguments callers pass to exec, in seconds.
Timeouts == {1}

\* What a piece of user code writes under /session/artifacts.
NoCode == [writes |-> <<>>]
Programs ==
    { [writes |-> <<>>],
      [writes |-> <<<<"artifacts/d/b", 1>>>>],
      [writes |-> <<<<"artifacts/a", 2>>, <<"artifacts/d/a", 1>>>>],
      [writes |-> <<<<"artifacts/a", 1>>, <<"artifacts/d/a", 3>>>>] }

\* SessionInfo
SessionInfo(container_id, last_used) ==
    [container_id |-> container_id, last_used |-> last_used]

\* The file behind /session/<rel> of key k's container: in the container's
\* tmpfs, or in the host directory bound at /session.
SessionPath(k, rel) ==
    IF session_storage = "TMPFS" THEN TmpfsPath(k, rel) ELSE BindPath(k, rel)

\* A container's tmpfs goes with the container.
DropTmpfs(f, ks) ==
    [p \in AllPaths |-> IF p[1] = "tmpfs" /\ p[2] \in ks THEN NoFile ELSE f[p]]

\* _sweep_idle: the sessions it evicts.
IdleKeys == {k \in DOMAIN sessions : now - sessions[k].last_used > IDLE_TIMEOUT_SECS}

\* A sweep that evicts nothing.
PopKeepsAll(ks) == sessions

\* self.sessions.pop for each key of ks.
Pop(ks) == [k \in (DOMAIN sessions) \ ks |-> sessions[k]]

\* containers.get(info.container_id).remove(force=True) for the sessions of
\* ks; the calls for the names in failed raise, the others remove the
\* container of that id if the runtime has it.
Removed(ks, failed) ==
    {k \in ks \ failed :
        k \in DOMAIN containers /\ containers[k].id = sessions[k].container_id}

\* A call of ingest_files made by exec is followed to its end before any
\* other step of the manager (calls of ingest_files that interleave are the
\* subject of SpecIngest).
Ingesting == \E t \in Threads : ing[t].pc \notin {"idle", "returned", "failed"}

\* The clock advances.
Tick ==
    /\ ~Ingesting
    /\ now < MaxNow
    /\ now' = now + 1
    /\ UNCHANGED <<fs, storeVars, ingVars, session_storage, sessions, containers,
                   next_cid, evicted, execVars>>
    /\ UNCHANGED serviceVars

\* A start that never takes the fast path.
ReattachNever(key, left, get_err) == FALSE

\* The fast path of start: containers.get(name) finds the container and
\* nothing in the try block raises.
Reattach(key, left, get_err) == key \in DOMAIN left /\ ~get_err

\* A start that marks a registered session as used.
StartTouches(key, failed, get_err) ==
    LET idle == IdleKeys
        gone == Removed(idle, failed)
        swept == Pop(idle)
        left == [k \in (DOMAIN containers) \ gone |-> containers[k]]
    IN  /\ ~Ingesting
        /\ failed \subseteq idle
        /\ evicted' = idle
        /\ IF key \in DOMAIN swept
           THEN \* already registered: touch it and return it
                /\ ~get_err
                /\ sessions' = [swept EXCEPT ![key].last_used = now]
                /\ containers' = left
                /\ fs' = DropTmpfs(fs, gone)
                /\ UNCHANGED next_cid
           ELSE IF key \in DOMAIN left /\ ~get_err
           THEN \* reattach to the container of that name
                /\ sessions' = [k \in (DOMAIN swept) \cup {key} |->
                       IF k = key THEN SessionInfo(left[key].id, now) ELSE swept[k]]
                /\ containers' = left
                /\ fs' = DropTmpfs(fs, gone)
                /\ UNCHANGED next_cid
           ELSE \* no such container, or one that is removed first: run a new one
                /\ get_err => key \in DOMAIN left
                /\ next_cid < MaxContainers
                /\ next_cid' = next_cid + 1
                /\ containers' = [k \in (DOMAIN left) \cup {key} |->
                       IF k = key THEN [id |-> next_cid + 1] ELSE left[k]]
                /\ sessions' = [k \in (DOMAIN swept) \cup {key} |->
                       IF k = key THEN SessionInfo(next_cid + 1, now) ELSE swept[k]]
                /\ fs' = DropTmpfs(fs, gone \cup {key})
    /\ UNCHANGED <<storeVars, ingVars, session_storage, now, execVars>>
    /\ UNCHANGED serviceVars

\* start(session_key).  failed: the names whose removal raises during the
\* sweep; get_err: containers.get(name) raises something other than NotFound.
Start(key, failed, get_err) ==
    LET idle == IdleKeys
        gone == Removed(idle, failed)
        swept == Pop(idle)
        left == [k \in (DOMAIN containers) \ gone |-> containers[k]]
    IN  /\ ~Ingesting
        /\ failed \subseteq idle
        /\ evicted' = idle
        /\ IF key \in DOMAIN swept
           THEN \* already registered: return it
                /\ ~get_err
                /\ sessions' = swept
                /\ containers' = left
                /\ fs' = DropTmpfs(fs, gone)
                /\ UNCHANGED next_cid
           ELSE IF Reattach(key, left, get_err)
           THEN \* reattach to the container of that name
                /\ sessions' = [k \in (DOMAIN swept) \cup {key} |->
                       IF k = key THEN SessionInfo(left[key].id, now) ELSE swept[k]]
                /\ containers' = left
                /\ fs' = DropTmpfs(fs, gone)
                /\ UNCHANGED next_cid
           ELSE \* no such container, or one that is removed first: run a new one
                /\ get_err => key \in DOMAIN left
                /\ next_cid < MaxContainers
                /\ next_cid' = next_cid + 1
                /\ containers' = [k \in (DOMAIN left) \cup {key} |->
                       IF k = key THEN [id |-> next_cid + 1] ELSE left[k]]
                /\ sessions' = [k \in (DOMAIN swept) \cup {key} |->
                       IF k = key THEN SessionInfo(next_cid + 1, now) ELSE swept[k]]
                /\ fs' = DropTmpfs(fs, gone \cup {key})
    /\ UNCHANGED <<storeVars, ingVars, session_storage, now, execVars>>
    /\ UNCHANGED serviceVars

\* A stop that removes the container named after the key even when the key
\* is not registered.
StopRemovesByName(key, fails) ==
    /\ ~Ingesting
    /\ LET gone == IF fails THEN {} ELSE {key} \cap DOMAIN containers
       IN  /\ key \notin DOMAIN sessions => ~fails
           /\ sessions' = Pop({key})
           /\ containers' = [k \in (DOMAIN containers) \ gone |-> containers[k]]
           /\ fs' = DropTmpfs(fs, gone)
    /\ UNCHANGED <<storeVars, ingVars, session_storage, next_cid, now, evicted, execVars>>
    /\ UNCHANGED serviceVars

\* stop(session_key).  fails: remove(force=True) raises.
Stop(key, fails) ==
    /\ ~Ingesting
    /\ IF key \in DOMAIN sessions
       THEN LET gone == Removed({key}, IF fails THEN {key} ELSE {})
            IN  /\ sessions' = Pop({key})
                /\ containers' = [k \in (DOMAIN containers) \ gone |-> containers[k]]
                /\ fs' = DropTmpfs(fs, gone)
       ELSE /\ ~fails
            /\ UNCHANGED <<sessions, containers, fs>>
    /\ UNCHANGED <<storeVars, ingVars, session_storage, next_cid, now, evicted, execVars>>
    /\ UNCHANGED serviceVars

(***************************************************************************)
(* exec                                                                    *)
(***************************************************************************)
RestPcs == {"idle", "done", "raised"}

IdleEx ==
    [pc |-> "idle", key |-> "", code |-> NoCode, timeout |-> 0, cid |-> 0,
     before |-> {}, new |-> <<>>, ok |-> FALSE, error |-> "", artifacts |-> <<>>,
     overran |-> FALSE, expected |-> <<>>]

\* The call of thread t raises: the exception leaves exec.
ExRaise(t, error) ==
    [ex EXCEPT ![t] = [IdleEx EXCEPT !.pc = "raised", !.key = ex[t].key,
                                      !.error = error]]

\* The container object the call holds is still a container of the runtime.
ContainerAlive(k, cid) == k \in DOMAIN containers /\ containers[k].id = cid

\* _list_artifact_files_container / _list_artifact_files_host
ListArtifactFiles(k) == {rel \in Rels : is_file(fs, SessionPath(k, rel))}

\* sorted(after - before)
Sorted(S) == SelectSeq(RelOrder, LAMBDA r : r \in S)

\* The message of the RuntimeError for a key that is not registered.
UnknownSession == "Unknown or expired session_key. Call start() first."

\* An exec that does not look the key up in the registry.
ExecBeginUnchecked(t, key, code, timeout) ==
    /\ ~Ingesting
    /\ ex[t].pc \in RestPcs
    /\ n_exec < MaxExecs
    /\ n_exec' = n_exec + 1
    /\ ex' = [ex EXCEPT ![t] = [IdleEx EXCEPT
                   !.pc = "before", !.key = key, !.code = code, !.timeout = timeout,
                   !.cid = IF key \in DOMAIN sessions
                           THEN sessions[key].container_id ELSE 0]]
    /\ sessions' = IF key \in DOMAIN sessions
                   THEN [sessions EXCEPT ![key].last_used = now] ELSE sessions
    /\ UNCHANGED <<fs, storeVars, ingVars, session_storage, containers, next_cid,
                   now, evicted>>
    /\ UNCHANGED serviceVars

\* exec: the session lookup, last_used, containers.get.
ExecBegin(t, key, code, timeout) ==
    /\ ~Ingesting
    /\ ex[t].pc \in RestPcs
    /\ n_exec < MaxExecs
    /\ n_exec' = n_exec + 1
    /\ IF key \notin DOMAIN sessions
       THEN /\ ex' = [ex EXCEPT ![t] = [IdleEx EXCEPT !.pc = "raised", !.key = key,
                                           !.error = UnknownSession]]
            /\ UNCHANGED sessions
       ELSE /\ sessions' = [sessions EXCEPT ![key].last_used = now]
            /\ IF ContainerAlive(key, sessions[key].container_id)
               THEN ex' = [ex EXCEPT ![t] = [IdleEx EXCEPT
                               !.pc = "before", !.key = key, !.code = code,
                               !.timeout = timeout, !.cid = sessions[key].container_id]]
               ELSE ex' = [ex EXCEPT ![t] = [IdleEx EXCEPT !.pc = "raised", !.key = key,
                                               !.error = "docker NotFound"]]
    /\ UNCHANGED <<fs, storeVars, ingVars, session_storage, containers, next_cid,
                   now, evicted>>
    /\ UNCHANGED serviceVars

\* The snapshot lists files through the container (TMPFS) or on the host.
CanList(t) == session_storage = "BIND" \/ ContainerAlive(ex[t].key, ex[t].cid)

\* Snapshot BEFORE.
ExecBefore(t) ==
    /\ ~Ingesting
    /\ ex[t].pc = "before"
    /\ IF CanList(t)
       THEN ex' = [ex EXCEPT ![t].pc = "repl", ![t].before = ListArtifactFiles(ex[t].key)]
       ELSE ex' = ExRaise(t, "docker NotFound")
    /\ UNCHANGED <<fs, storeVars, ingVars, mgrVars, n_exec>>
    /\ UNCHANGED serviceVars

\* The files of f after the code's writes under /session of key k.
RECURSIVE Write(_, _, _)
Write(f, k, writes) ==
    IF writes = <<>> THEN f
    ELSE Write([f EXCEPT ![SessionPath(k, Head(writes)[1])] = Head(writes)[2]],
               k, Tail(writes))

\* repl_server.exec_code: exec() of the code is a blocking call inside run(),
\* which has no point at which wait_for can cancel it; the response comes
\* when the code has run.
TimedOut(dur, timeout) == FALSE

ReplResponse(dur, timeout) ==
    IF TimedOut(dur, timeout)
    THEN [ok |-> FALSE, error |-> "Execution timed out."]
    ELSE [ok |-> TRUE, error |-> ""]

\* An exec that takes its first snapshot when the code has run.
ExecReplSnapshotsLate(t, dur) ==
    /\ ~Ingesting
    /\ ex[t].pc = "repl"
    /\ LET k == ex[t].key
       IN  IF k \notin DOMAIN sessions
           THEN /\ ex' = ExRaise(t, "Unknown session_key")
                /\ UNCHANGED fs
           ELSE IF k \notin DOMAIN containers
           THEN /\ ex' = ExRaise(t, "httpx.ConnectError")
                /\ UNCHANGED fs
           ELSE /\ fs' = Write(fs, k, ex[t].code.writes)
                /\ IF dur > ex[t].timeout + HTTP_MARGIN_SECS
                   THEN ex' = [ExRaise(t, "httpx.ReadTimeout") EXCEPT
                                  ![t].overran = TRUE]
                   ELSE ex' = [ex EXCEPT
                            ![t].pc = "after",
                            ![t].before =
                                {rel \in Rels : is_file(fs', SessionPath(k, rel))},
                            ![t].ok = ReplResponse(dur, ex[t].timeout).ok,
                            ![t].error = ReplResponse(dur, ex[t].timeout).error,
                            ![t].overran = dur > ex[t].timeout,
                            ![t].code = NoCode,
                            ![t].timeout = 0]
    /\ UNCHANGED <<storeVars, ingVars, mgrVars, n_exec>>
    /\ UNCHANGED serviceVars

\* Execute via REPL: POST /exec with HTTP timeout `timeout + 5`.  dur: how
\* long the code runs.
ExecRepl(t, dur) ==
    /\ ~Ingesting
    /\ ex[t].pc = "repl"
    /\ LET k == ex[t].key
       IN  IF k \notin DOMAIN sessions
           THEN /\ ex' = ExRaise(t, "Unknown session_key")
                /\ UNCHANGED fs
           ELSE IF k \notin DOMAIN containers
           THEN /\ ex' = ExRaise(t, "httpx.ConnectError")
                /\ UNCHANGED fs
           ELSE /\ fs' = Write(fs, k, ex[t].code.writes)
                /\ IF dur > ex[t].timeout + HTTP_MARGIN_SECS
                   THEN ex' = [ExRaise(t, "httpx.ReadTimeout") EXCEPT
                                  ![t].overran = TRUE]
                   ELSE ex' = [ex EXCEPT
                            ![t].pc = "after",
                            ![t].ok = ReplResponse(dur, ex[t].timeout).ok,
                            ![t].error = ReplResponse(dur, ex[t].timeout).error,
                            ![t].overran = dur > ex[t].timeout,
                            ![t].code = NoCode,
                            ![t].timeout = 0]
    /\ UNCHANGED <<storeVars, ingVars, mgrVars, n_exec>>
    /\ UNCHANGED serviceVars

\* What a descriptor says of a file: its name, its size, its digest (none
\* for a file over the cap).
Shown(name, c) ==
    [name |-> name, size |-> Size(c),
     sha256 |-> IF Size(c) > max_bytes THEN NULL ELSE Sha(c)]

\* Snapshot AFTER and the diff.
ExecAfter(t) ==
    /\ ~Ingesting
    /\ ex[t].pc = "after"
    /\ IF CanList(t)
       THEN LET new == Sorted(ListArtifactFiles(ex[t].key) \ ex[t].before)
            IN  ex' = [ex EXCEPT
                    ![t].pc = "copy",
                    ![t].new = new,
                    ![t].before = {},
                    ![t].expected =
                        [i \in DOMAIN new |->
                            Shown(Base(new[i]), fs[SessionPath(ex[t].key, new[i])])]]
       ELSE ex' = ExRaise(t, "docker NotFound")
    /\ UNCHANGED <<fs, storeVars, ingVars, mgrVars, n_exec>>
    /\ UNCHANGED serviceVars

\* _copy_from_container for each new file, in order, into the call's fresh
\* staging directory: each lands at <staging>/<basename>.
RECURSIVE CopyOut(_, _, _, _)
CopyOut(f, t, k, rels) ==
    IF rels = <<>> THEN f
    ELSE CopyOut([f EXCEPT ![StagePath(t, Base(Head(rels)))] = f[TmpfsPath(k, Head(rels))]],
                 t, k, Tail(rels))

\* A fresh temporary directory: nothing in it.
FreshStaging(f, t) ==
    [p \in AllPaths |-> IF p[1] = "stage" /\ p[2] = t THEN NoFile ELSE f[p]]

\* Materialize the new files on the host and call ingest_files on them.
ExecCopy(t) ==
    /\ ~Ingesting
    /\ ex[t].pc = "copy"
    /\ LET k == ex[t].key
           new == ex[t].new
       IN  IF session_storage = "TMPFS"
           THEN IF /\ ContainerAlive(k, ex[t].cid)
                   /\ \A i \in DOMAIN new : is_file(fs, TmpfsPath(k, new[i]))
                THEN LET staged == CopyOut(FreshStaging(fs, t), t, k, new)
                         host_files == [i \in DOMAIN new |-> StagePath(t, Base(new[i]))]
                     IN  /\ fs' = staged
                         /\ ex' = [ex EXCEPT ![t].pc = "ingest"]
                         /\ ing' = [ing EXCEPT ![t] =
                                [IdleIng EXCEPT
                                    !.pc = "stat",
                                    !.paths = SelectSeq(host_files,
                                                        LAMBDA p : is_file(staged, p)),
                                    !.session_id = k]]
                ELSE /\ ex' = ExRaise(t, "Failed to copy from container")
                     /\ UNCHANGED <<fs, ing>>
           ELSE LET host_files == [i \in DOMAIN new |-> BindPath(k, new[i])]
                IN  /\ ex' = [ex EXCEPT ![t].pc = "ingest"]
                    /\ ing' = [ing EXCEPT ![t] = IngestEnter(host_files, k)]
                    /\ UNCHANGED fs
    /\ UNCHANGED <<storeVars, txn, mgrVars, n_exec>>
    /\ UNCHANGED serviceVars

\* ingest_files runs within exec.
ExecIngest(t) ==
    /\ ex[t].pc = "ingest"
    /\ \/ IngestStat(t)
       \/ UpsertSelect(t)
       \/ UpsertCopy(t)
       \/ UpsertInsert(t)
       \/ UpsertCommit(t)
       \/ InsertLink(t)
       \/ CommitLink(t)
       \/ FinishFile(t)
       \/ IngestReturn(t)

\* _cleanup_session_memory, the code it posts to the REPL: the files
\* directly under /session/artifacts are unlinked.
TopLevel == {"artifacts/a"}

CleanupFiles(f, k) ==
    [p \in AllPaths |->
        IF p = SessionPath(k, p[3]) /\ p[2] = k /\ p[3] \in TopLevel
        THEN NoFile ELSE f[p]]

\* After ingest_files: its exception leaves exec; else the cleanup and the
\* response.
ExecReturn(t) ==
    /\ ex[t].pc = "ingest"
    /\ ing[t].pc \in {"returned", "failed"}
    /\ ing' = [ing EXCEPT ![t] = IdleIng]
    /\ LET k == ex[t].key
       IN  IF ing[t].pc = "failed"
           THEN /\ ex' = ExRaise(t, "ingest_files raised")
                /\ UNCHANGED fs
           ELSE IF k \notin DOMAIN sessions
           THEN /\ ex' = [ex EXCEPT ![t].pc = "done", ![t].cid = 0, ![t].new = <<>>,
                                    ![t].artifacts = ing[t].descriptors]
                /\ UNCHANGED fs
           ELSE IF ~ContainerAlive(k, sessions[k].container_id)
           THEN /\ ex' = ExRaise(t, "docker NotFound")
                /\ UNCHANGED fs
           ELSE /\ ex' = [ex EXCEPT ![t].pc = "done", ![t].cid = 0, ![t].new = <<>>,
                                    ![t].artifacts = ing[t].descriptors]
                /\ fs' = CleanupFiles(fs, k)
    /\ UNCHANGED <<storeVars, txn, mgrVars, n_exec>>
    /\ UNCHANGED serviceVars

InitMgr ==
    /\ session_storage \in {"TMPFS", "BIND"}
    /\ sessions = <<>>
    /\ containers = <<>>
    /\ next_cid = 0
    /\ now = 0
    /\ evicted = {}
    /\ ex = [t \in Threads |-> IdleEx]
    /\ n_exec = 0

Init ==
    /\ fs = [p \in AllPaths |-> NoFile]
    /\ InitStore
    /\ InitMgr
    /\ InitService

\* The thread that calls exec while start, stop and the clock interleave with
\* it; calls of exec that overlap each other are the subject of SpecExec.
Callers == {"t1"}

\* The code it runs writes at most one file; batches of several new files
\* are the subject of SpecExec.
SmallPrograms == {p \in Programs : Len(p.writes) <= 1}

Next ==
    \/ Tick
    \/ \E k \in Keys, failed \in SUBSET Keys, get_err \in BOOLEAN :
           Start(k, failed, get_err)
    \/ \E k \in Keys, fails \in BOOLEAN : Stop(k, fails)
    \/ \E t \in Callers, k \in Keys, code \in SmallPrograms, timeout \in Timeouts :
           ExecBegin(t, k, code, timeout)
    \/ \E t \in Threads : ExecBefore(t)
    \/ \E t \in Threads, dur \in 0..MaxDur : ExecRepl(t, dur)
    \/ \E t \in Threads : ExecAfter(t)
    \/ \E t \in Threads : ExecCopy(t)
    \/ \E t \in Threads : ExecIngest(t)
    \/ \E t \in Threads : ExecReturn(t)

Spec == Init /\ [][Next]_vars

\* Sessions are started and never stopped, the clock stands, and the threads
\* call exec at will.
NextExec ==
    \/ \E k \in Keys : Start(k, {}, FALSE)
    \/ \E t \in Threads, k \in Keys, code \in Programs, timeout \in Timeouts :
           ExecBegin(t, k, code, timeout)
    \/ \E t \in Threads : ExecBefore(t)
    \/ \E t \in Threads, dur \in 0..MaxDur : ExecRepl(t, dur)
    \/ \E t \in Threads : ExecAfter(t)
    \/ \E t \in Threads : ExecCopy(t)
    \/ \E t \in Threads : ExecIngest(t)
    \/ \E t \in Threads : ExecReturn(t)

SpecExec == Init /\ [][NextExec]_vars

InitIngest ==
    /\ fs = [p \in AllPaths |-> NoFile]
    /\ InitStore
    /\ InitMgr
    /\ session_storage = "BIND"
    /\ InitService

SpecIngest == InitIngest /\ [][NextIngest]_vars

(***************************************************************************)
(* Properties of the store.                                                *)
(***************************************************************************)
\* The sum of the function f over the set S.
RECURSIVE SumOver(_, _)
SumOver(S, f) ==
    IF S = {} THEN 0
    ELSE LET x == CHOOSE y \in S : TRUE IN f[x] + SumOver(S \ {x}, f)

\* The descriptors a thread's call has appended so far.
DescsOf(t) == {ing[t].descriptors[i] : i \in DOMAIN ing[t].descriptors}

AllDescs == UNION {DescsOf(t) : t \in Threads}

\* Committed links rows for an artifact id.
LinkCountOf(id) == SumOver(Keys, [k \in Keys |-> CopiesIn(LinkRow(id, k), links)])

\* Files a thread's call has ingested: those it has a descriptor with an id
\* for, and the one whose link is committed and whose descriptor is next.
IngestedBy(t) ==
    Cardinality({i \in DOMAIN ing[t].descriptors : ing[t].descriptors[i].id # NULL})
    + (IF ing[t].pc = "delete" THEN 1 ELSE 0)

\* C2: files with the same sha256, from any calls and sessions, get the same
\* artifact id; table artifacts has one row per sha256, that id's row; and
\* table links has exactly one row per ingested file.
C2_DedupBySha ==
    /\ \A r1, r2 \in artifacts : r1.sha256 = r2.sha256 => r1 = r2
    /\ \A d \in AllDescs : d.id # NULL =>
           /\ \E r \in artifacts : r.sha256 = d.sha256 /\ r.id = d.id
           /\ \A e \in AllDescs : e.sha256 = d.sha256 => e.id = d.id
    /\ BagCardinality(links) = SumOver(Threads, [t \in Threads |-> IngestedBy(t)])

\* Two calls, for different sessions, have each ingested a file of the same
\* content: one row, one id, a link each.
C2_Witness ==
    \E t, u \in Threads :
        /\ t # u
        /\ ing[t].session_id # ing[u].session_id
        /\ ing[t].pc = "returned" /\ ing[u].pc = "returned"
        /\ \E d \in DescsOf(t), e \in DescsOf(u) :
               d.id # NULL /\ d.sha256 = e.sha256 /\ d.name # e.name

\* C8: the artifacts row and the links row of a file are committed together:
\* in no durable state is there an artifacts row without a links row.
C8_RowsCommittedTogether == \A r \in artifacts : LinkCountOf(r.id) >= 1

\* The source of the file a call is working on, between its hash and the
\* commit of its link.
InProgressPcs == {"select", "copy", "insert", "commit_art", "link", "commit_link"}

\* C9: a source file is deleted only by the call that has committed an
\* artifacts row and a links row for it; a step that fails deletes nothing,
\* and until its rows are committed the source of the file in hand exists.
C9_DeleteAfterCommit ==
    /\ [][\A p \in AllPaths :
              (fs[p] # NoFile /\ fs'[p] = NoFile) =>
                  \E t \in Threads :
                      /\ ing[t].pc = "delete"
                      /\ Head(ing[t].paths) = p
                      /\ txn[t] = EmptyTxn
                      /\ \E r \in artifacts :
                             r.id = ing[t].artifact_id /\ r.sha256 = Sha(fs[p])
                      /\ CopiesIn(LinkRow(ing[t].artifact_id, ing[t].session_id),
                                  links) >= 1]_vars
    /\ [][\A t \in Threads :
              (ing[t].pc # "failed" /\ ing'[t].pc = "failed") => fs' = fs]_vars
    /\ [](\A t \in Threads :
              ing[t].pc \in InProgressPcs => is_file(fs, Head(ing[t].paths)))

\* A call has ingested one file, whose source is gone, and failed on the
\* next, whose source is still there.
C9_Witness ==
    \E t \in Threads :
        /\ ing[t].pc = "failed"
        /\ ing[t].paths # <<>>
        /\ is_file(fs, Head(ing[t].paths))
        /\ \E d \in DescsOf(t) :
               d.id # NULL /\ ~is_file(fs, StagePath(t, d.name))

ActivePcs == {"before", "repl", "after", "copy", "ingest"}

Range(seq) == {seq[i] : i \in DOMAIN seq}

\* How many times each element occurs in seq.
Occurrences(seq) ==
    [x \in Range(seq) |-> Cardinality({i \in DOMAIN seq : seq[i] = x})]

\* What the call of thread t returned about each artifact.
ReturnedShown(t) ==
    [i \in DOMAIN ex[t].artifacts |->
        [name |-> ex[t].artifacts[i].name,
         size |-> ex[t].artifacts[i].size,
         sha256 |-> ex[t].artifacts[i].sha256]]

\* C1: when exec has returned, its artifacts list has one descriptor for each
\* file that was in the after-snapshot and not in the before-snapshot, with
\* the name, the size and the digest of that file, and no other descriptor.
C1_ArtifactsAreTheDiff ==
    \A t \in Threads :
        ex[t].pc = "done" => Occurrences(ReturnedShown(t)) = Occurrences(ex[t].expected)

\* C3: two calls of exec with the same session key are never both between
\* their before-snapshot and the end of their ingest.
C3_ExecMutuallyExclusive ==
    \A t1, t2 \in Threads :
        (t1 # t2 /\ ex[t1].key = ex[t2].key)
            => ~(ex[t1].pc \in ActivePcs /\ ex[t2].pc \in ActivePcs)

C5_ExecSweepsIdle ==
    [][\A t \in Threads :
          (/\ ExecReturn(t)
           /\ ex'[t].pc = "done"
           /\ ex[t].key \in DOMAIN sessions
           /\ sessions[ex[t].key].container_id = ex[t].cid) =>
              \A j \in DOMAIN sessions' \ {ex[t].key} :
                  sessions[ex[t].key].last_used - sessions'[j].last_used
                      <= IDLE_TIMEOUT_SECS]_vars

\* C6: a call of exec with a key that is not registered raises the
\* unknown-session error at once: the registry, the files, the store and the
\* containers are as they were, and no ingest has begun.
C6_UnknownSessionRaises ==
    [][\A t \in Threads :
          (n_exec' # n_exec /\ ex'[t] # ex[t] /\ ex'[t].key \notin DOMAIN sessions) =>
              /\ ex'[t].pc = "raised"
              /\ ex'[t].error = UnknownSession
              /\ UNCHANGED <<sessions, containers, fs, storeVars, ingVars>>]_vars

\* exec has raised the unknown-session error for a key that had a session
\* until a start evicted it.
C6_Witness ==
    \E t \in Threads :
        /\ ex[t].pc = "raised"
        /\ ex[t].error = UnknownSession
        /\ ex[t].key \in evicted
        /\ ex[t].key \notin DOMAIN sessions

\* C7: a call of exec whose code ran longer than the timeout returns (it does
\* not raise) with ok = false, the timed-out error and no artifacts.
C7_TimeoutIsNonOkResult ==
    \A t \in Threads :
        (ex[t].pc \in {"done", "raised"} /\ ex[t].overran) =>
            /\ ex[t].pc = "done"
            /\ ~ex[t].ok
            /\ ex[t].error = "Execution timed out."
            /\ ex[t].artifacts = <<>>

(***************************************************************************)
(* More properties of the store                                            *)
(***************************************************************************)
\* The places of _upsert_artifact between the blob written and the row
\* committed.
MidInsertPcs == {"insert", "commit_art"}

\* C11: every artifacts row has its blob file, and a blob file with no
\* artifacts row exists only while some call is between writing that blob
\* and committing its row.
C11_RowsHaveBlobsNoOrphans ==
    /\ \A r \in artifacts : blob_exists(r.sha256)
    /\ \A s \in Shas :
           (blob_exists(s) /\ ~\E r \in artifacts : r.sha256 = s) =>
               \E t \in Threads : ing[t].sha = s /\ ing[t].pc \in MidInsertPcs

\* The descriptor a step of thread t appends.
Appended(t) == ing'[t].descriptors[Len(ing'[t].descriptors)]

\* C12: a file whose size is the cap is ingested (its descriptor has an id
\* and its row is committed); a file one unit larger gets a descriptor with
\* no id and an error, the step that emits it writes no row and leaves the
\* files alone, the source among them; no row ever has a size over the cap.
C12_SizeCapBoundary ==
    /\ [][\A t \in Threads :
             Len(ing'[t].descriptors) = Len(ing[t].descriptors) + 1 =>
                 LET d == Appended(t)
                     src == Head(ing[t].paths)
                 IN  /\ d.size = Size(fs[src])
                     /\ d.size <= max_bytes =>
                            /\ d.id # NULL
                            /\ \E r \in artifacts :
                                   r.id = d.id /\ r.size = d.size
                     /\ d.size > max_bytes =>
                            /\ d.id = NULL
                            /\ "error" \in DOMAIN d
                            /\ UNCHANGED <<fs, storeVars, txn>>
                            /\ is_file(fs', src)]_vars
    /\ [](\A r \in artifacts \cup UNION {txn[t].arts : t \in Threads} :
              r.size <= max_bytes)

\* One call has returned a descriptor with an id for a file of exactly the
\* cap and a descriptor without id for a file one unit larger, which is
\* still where it was.
C12_Witness ==
    \E t \in Threads :
        /\ ing[t].pc = "returned"
        /\ \E i, j \in DOMAIN ing[t].descriptors :
               /\ ing[t].descriptors[i].size = max_bytes
               /\ ing[t].descriptors[i].id # NULL
               /\ ing[t].descriptors[j].size = max_bytes + 1
               /\ ing[t].descriptors[j].id = NULL
               /\ \E b \in Bases :
                      /\ ing[t].descriptors[j].name = b
                      /\ Size(fs[StagePath(t, b)]) = max_bytes + 1

\* C13: the INSERT of a call never fails: when another call has committed a
\* row with the same sha256 since this call's SELECT, this call goes on with
\* that row's id.
C13_InsertRaceReselects ==
    [][\A t \in Threads :
          UpsertInsert(t) =>
              /\ ing'[t].pc # "failed"
              /\ ShaTaken(ing[t].sha) =>
                     \E r \in artifacts :
                         r.sha256 = ing[t].sha /\ ing'[t].artifact_id = r.id]_vars

(***************************************************************************)
(* Download tokens (artifacts/tokens.py) and the download endpoint         *)
(* (artifacts/api.py).  A string with dots in it is the sequence of its    *)
(* dot-separated fields.                                                   *)
(***************************************************************************)
coreVars == <<fs, storeVars, ingVars, mgrVars, execVars>>
baseVars == <<coreVars, apiVars, dataVars, replVars, cacheIoVars, exportVars>>

ARTIFACTS_TOKEN_TTL_SECONDS == 1
MaxTokens == 2
MaxRand == 5

EnvSecrets == {NoSecret, "k"}
PathIds == {ArtId(1), ArtId(2)}

\* base64.urlsafe_b64encode without padding, and its inverse, which raises
\* on what is not such an encoding.
_b64u(data) == <<"b64u", data>>
IsB64u(s) == Len(s) = 2 /\ s[1] = "b64u"
_b64u_dec(s) == s[2]

\* f"{exp}" and int(exp_str), which raises on what is not a numeral.
Str(n) == <<"digits", n>>
IsNumeral(s) == Len(s) = 2 /\ s[1] = "digits"
ParseInt(s) == s[2]

\* hmac.new(key, msg, sha256).digest()
Hmac(key, msg) == <<"hmac", key, msg>>

\* _secret(): the environment's secret when there is one, else a secret
\* drawn anew by this very call, the n-th the process has drawn.
_secret(n) ==
    IF env_secret # NoSecret THEN <<"utf-8", env_secret>> ELSE <<"urlsafe", n>>

\* The secret draws that a call of _secret() adds.
Drawn == IF env_secret # NoSecret THEN 0 ELSE 1

_ttl == ARTIFACTS_TOKEN_TTL_SECONDS

create_token(artifact_id, t, n) ==
    LET exp == t + _ttl
        msg == <<artifact_id, Str(exp)>>
        sig == Hmac(_secret(n), msg)
    IN  <<_b64u(msg), _b64u(sig)>>

\* token.split(".", 1), the two decodings, msg.rsplit(".", 1) and int() all
\* go through.
WellFormed(token) ==
    /\ Len(token) = 2
    /\ IsB64u(token[1])
    /\ IsB64u(token[2])
    /\ Len(_b64u_dec(token[1])) = 2
    /\ IsNumeral(_b64u_dec(token[1])[2])

ExpiredAsStated(t, exp) == t >= exp

Expired(t, exp) == t > exp

verify_token(token, t, n) ==
    IF ~WellFormed(token)
    THEN [ok |-> FALSE, error |-> "Invalid token format"]
    ELSE LET msg == _b64u_dec(token[1])
             sig == _b64u_dec(token[2])
             artifact_id == msg[1]
             exp == ParseInt(msg[2])
         IN  IF sig # Hmac(_secret(n), msg)
             THEN [ok |-> FALSE, error |-> "Invalid token signature"]
             ELSE IF Expired(t, exp)
             THEN [ok |-> FALSE, error |-> "Token expired"]
             ELSE [ok |-> TRUE, artifact_id |-> artifact_id, exp |-> exp]

\* A caller obtains a token for an artifact id.
CreateToken(a) ==
    /\ Cardinality(tokens) + Cardinality(forged) < MaxTokens
    /\ rand_n + Drawn <= MaxRand
    /\ tokens' = tokens \cup
           {[artifact_id |-> a, exp |-> now + _ttl,
             token |-> create_token(a, now, rand_n + 1)]}
    /\ rand_n' = rand_n + Drawn
    /\ UNCHANGED <<env_secret, forged, last>>
    /\ UNCHANGED <<coreVars, dataVars, moreVars>>

\* What a client can make of a token it holds, or out of nothing.
Forgeries(tok) ==
    LET msg == _b64u_dec(tok[1])
    IN  {<<_b64u(<<a, msg[2]>>), tok[2]>> : a \in PathIds \ {msg[1]}}
        \cup {<<_b64u(<<msg[1], Str(ParseInt(msg[2]) + 1)>>), tok[2]>>}
        \cup {<<tok[1], _b64u(Hmac(<<"utf-8", "guess">>, msg))>>}
        \cup {<<_b64u(<<msg[1], msg[1]>>), tok[2]>>}
        \cup {<<_b64u(<<msg[1]>>), tok[2]>>}
        \cup {<<tok[1]>>}

Forge ==
    /\ Cardinality(tokens) + Cardinality(forged) < MaxTokens
    /\ \E r \in tokens : \E tok \in Forgeries(r.token) :
           forged' = forged \cup {tok}
    /\ UNCHANGED <<env_secret, rand_n, tokens, last>>
    /\ UNCHANGED <<coreVars, dataVars, moreVars>>

\* The token strings in clients' hands.
Presented == {r.token : r \in tokens} \cup forged

Verify ==
    /\ rand_n + Drawn <= MaxRand
    /\ \E tok \in Presented :
           last' = [op |-> "verify_token", token |-> tok, at |-> now,
                    result |-> verify_token(tok, now, rand_n + 1)]
    /\ rand_n' = rand_n + Drawn
    /\ UNCHANGED <<env_secret, tokens, forged>>
    /\ UNCHANGED <<coreVars, dataVars, moreVars>>

\* SELECT sha256, mime, filename FROM artifacts WHERE id = ?
SelectById(artifact_id) == {r \in artifacts : r.id = artifact_id}

\* The bytes FileResponse streams from the blob path.
BlobBytes(sha) == <<blobs[sha], sha[2]>>

NoBody == <<"none", NoFile>>

download_artifact(artifact_id, token, t, n) ==
    LET data == verify_token(token, t, n)
        rows == SelectById(artifact_id)
    IN  IF ~data.ok
        THEN [status |-> 401, detail |-> data.error, body |-> NoBody]
        ELSE IF data.artifact_id # artifact_id
        THEN [status |-> 403, detail |-> "Token does not match artifact",
              body |-> NoBody]
        ELSE IF rows = {}
        THEN [status |-> 404, detail |-> "Artifact not found", body |-> NoBody]
        ELSE LET row == CHOOSE r \in rows : TRUE
             IN  IF ~blob_exists(row.sha256)
                 THEN [status |-> 410, detail |-> "Blob missing (pruned?)",
                       body |-> NoBody]
                 ELSE [status |-> 200, detail |-> "",
                       body |-> BlobBytes(row.sha256)]

\* GET /artifacts/{artifact_id}?token=...
Download(artifact_id) ==
    /\ rand_n + Drawn <= MaxRand
    /\ \E tok \in Presented :
           last' = [op |-> "download", artifact_id |-> artifact_id,
                    token |-> tok, at |-> now,
                    response |-> download_artifact(artifact_id, tok, now,
                                                   rand_n + 1)]
    /\ rand_n' = rand_n + Drawn
    /\ UNCHANGED <<env_secret, tokens, forged>>
    /\ UNCHANGED <<coreVars, dataVars, moreVars>>

\* A blob file is deleted out of band.
Prune(sha) ==
    /\ blob_exists(sha)
    /\ blobs' = [blobs EXCEPT ![sha] = "none"]
    /\ UNCHANGED <<fs, artifacts, links, next_art, ingVars, mgrVars, execVars>>
    /\ UNCHANGED serviceVars

\* The store after one ingest of a file "a" of content 1 by session s1; the
\* secret is in the environment or not.
InitApi ==
    /\ fs = [p \in AllPaths |-> NoFile]
    /\ blobs = [s \in Shas |-> IF s = Sha(1) THEN "full" ELSE "none"]
    /\ artifacts = {ArtRow(ArtId(1), Sha(1), Size(1), "a")}
    /\ links = SetToBag({LinkRow(ArtId(1), "s1")})
    /\ next_art = 1
    /\ ing = [t \in Threads |-> IdleIng]
    /\ txn = [t \in Threads |-> EmptyTxn]
    /\ InitMgr
    /\ session_storage = "BIND"
    /\ env_secret \in EnvSecrets
    /\ rand_n = 0
    /\ tokens = {}
    /\ forged = {}
    /\ last = NoCall
    /\ dataset_access = "API"
    /\ cache_file = <<>>
    /\ cop = [t \in Threads |-> IdleCop]
    /\ lp = IdleLoad
    /\ data_fs = [p \in DataPaths |-> NoFile]
    /\ InitMore

NextApi ==
    \/ Tick
    \/ \E a \in PathIds : CreateToken(a)
    \/ Forge
    \/ Verify
    \/ \E a \in PathIds : Download(a)
    \/ \E s \in Shas : Prune(s)

SpecApi == InitApi /\ [][NextApi]_vars

\* The record of the create_token call that returned this token string.
IssuedAs(tok) == {r \in tokens : r.token = tok}

\* C14: whether a secret is configured or not, verify_token of a token that
\* create_token returned, called before the token's expiry, returns the
\* artifact id the token was created for.
C14_CreateVerifyRoundTrip ==
    last.op = "verify_token" =>
        \A r \in IssuedAs(last.token) :
            last.at < r.exp =>
                last.result.ok /\ last.result.artifact_id = r.artifact_id

\* C15: with a secret configured, a token created with expiry e verifies at
\* every time before e and is rejected as expired at e and at every later
\* time.
C15_ExpiryBoundary ==
    (last.op = "verify_token" /\ env_secret # NoSecret) =>
        \A r \in IssuedAs(last.token) :
            /\ ~ExpiredAsStated(last.at, r.exp) => last.result.ok
            /\ ExpiredAsStated(last.at, r.exp) =>
                   ~last.result.ok /\ last.result.error = "Token expired"

\* The response the stated order of checks gives, a token counting as
\* verified when create_token returned it and the time is before its expiry.
StatedResponse(artifact_id, tok) ==
    LET issued == IssuedAs(tok)
    IN  IF issued = {} \/ \A r \in issued : ExpiredAsStated(now, r.exp)
        THEN 401
        ELSE IF \A r \in issued : r.artifact_id # artifact_id THEN 403
        ELSE IF SelectById(artifact_id) = {} THEN 404
        ELSE IF \A r \in SelectById(artifact_id) : ~blob_exists(r.sha256)
        THEN 410
        ELSE 200

\* C16: with a secret configured, every download request is answered 401
\* when the token fails verification (format, signature, expiry), else 403
\* when the token is for another id, else 404 when the id has no row, else
\* 410 when the row's blob is missing, else 200 with the blob's bytes.
C16_DownloadCheckOrder ==
    [][\A a \in PathIds :
          (Download(a) /\ env_secret # NoSecret) =>
              /\ last'.response.status = StatedResponse(a, last'.token)
              /\ last'.response.status = 200 =>
                     \E r \in artifacts :
                         /\ r.id = a
                         /\ last'.response.body = <<"full", r.sha256[2]>>]_vars

(***************************************************************************)
(* The dataset cache of a session (dataset_manager/cache.py), the sync     *)
(* driver (dataset_manager/sync.py) and staging                            *)
(* (dataset_manager/staging.py, sandbox/io.py).                            *)
(***************************************************************************)
LOADED == "loaded"
PENDING == "pending"
FAILED == "failed"
Statuses == {LOADED, PENDING, FAILED}

DatasetEntry(id, status) == [id |-> id, status |-> status]

\* The entries in order, without those whose id is in seen or came earlier.
RECURSIVE Unique(_, _)
Unique(entries, seen) ==
    IF entries = <<>> THEN <<>>
    ELSE LET e == Head(entries)
         IN  IF e.id \in seen THEN Unique(Tail(entries), seen)
             ELSE <<e>> \o Unique(Tail(entries), seen \cup {e.id})

read_entries == Unique(cache_file, {})

write_entries(entries) == Unique(entries, {})

\* An add_entry that drops the existing entry and appends the new one.
add_entryMovesToEnd(entries, ds_id, status) ==
    Append(SelectSeq(entries, LAMBDA e : e.id # ds_id), DatasetEntry(ds_id, status))

add_entry(entries, ds_id, status) ==
    IF \E i \in DOMAIN entries : entries[i].id = ds_id
    THEN LET i == CHOOSE k \in DOMAIN entries :
                      /\ entries[k].id = ds_id
                      /\ \A j \in 1..(k - 1) : entries[j].id # ds_id
         IN  [entries EXCEPT ![i].status = status]
    ELSE Append(entries, DatasetEntry(ds_id, status))

\* add_entry, add_id (status PENDING) or update_entry_status up to its
\* read of the file.
CacheRead(t, ds_id, status) ==
    /\ cop[t].pc = "idle"
    /\ cop' = [cop EXCEPT ![t] = [pc |-> "write", entries |-> read_entries,
                                  ds_id |-> ds_id, status |-> status]]
    /\ UNCHANGED <<dataset_access, cache_file, lp, data_fs>>
    /\ UNCHANGED <<coreVars, apiVars, moreVars>>

\* The rest of the call: the file is replaced by the entries read, with the
\* one entry added or updated.
CacheWrite(t) ==
    /\ cop[t].pc = "write"
    /\ cache_file' = write_entries(add_entry(cop[t].entries, cop[t].ds_id,
                                             cop[t].status))
    /\ cop' = [cop EXCEPT ![t] = IdleCop]
    /\ UNCHANGED <<dataset_access, lp, data_fs>>
    /\ UNCHANGED <<coreVars, apiVars, moreVars>>

ClearCache(t) ==
    /\ cop[t].pc = "idle"
    /\ cache_file' = write_entries(<<>>)
    /\ UNCHANGED <<dataset_access, cop, lp, data_fs>>
    /\ UNCHANGED <<coreVars, apiVars, moreVars>>

\* Threads call the cache functions of one session at will.
NextCache ==
    \/ \E t \in Threads, ds_id \in DsIds, status \in Statuses :
           CacheRead(t, ds_id, status)
    \/ \E t \in Threads : CacheWrite(t)
    \/ \E t \in Threads : ClearCache(t)

SpecCache == InitIngest /\ [][NextCache]_vars

container_staged_path(ds_id) == <<"/data", ds_id>>

container_ro_path(ds_id) == <<"/data", ds_id>>

\* /session/data/<ds_id>.parquet in the container: where staging writes in
\* TMPFS, and where the container sees host_bind_data_path in BIND.
SessionDataPath(ds_id) == <<"/session/data", ds_id>>

\* sandbox/io.py holds both sides of a merge; a call of put_bytes runs one.
Drafts == {"HEAD", "feat/sandbox-sync"}

\* The bytes fetch_fn returns.
Fetched == {1, 2}

put_bytes(dfs, container_path, data, draft, archived) ==
    IF draft = "HEAD"
    THEN [dfs EXCEPT ![container_path] = data]
    ELSE LET put == IF archived
                    THEN [dfs EXCEPT ![<<"/data", container_path[2]>>] = data]
                    ELSE dfs
         IN  IF put[container_path] # NoFile THEN put
             ELSE [put EXCEPT ![container_path] = data]

stage_dataset_into_sandbox(dfs, ds_id, data, draft, archived) ==
    IF session_storage = "TMPFS"
    THEN put_bytes(dfs, SessionDataPath(ds_id), data, draft, archived)
    ELSE [dfs EXCEPT ![SessionDataPath(ds_id)] = data]

\* Lists of distinct dataset ids, as read_pending_ids returns them.
IdLists ==
    {<<>>} \cup {<<a>> : a \in DsIds}
           \cup {<<a, b>> : <<a, b>> \in {q \in DsIds \X DsIds : q[1] # q[2]}}

\* No cache function is under way: they run without yielding to the event
\* loop that runs load_pending_datasets.
NoCacheOp == \A t \in Threads : cop[t].pc = "idle"

LoadBegin(ds_ids) ==
    /\ lp.pc \in {"idle", "returned", "raised"}
    /\ lp' = [pc |-> "stage", ds_ids |-> ds_ids, i |-> 1, out |-> <<>>,
              fetched |-> <<>>]
    /\ UNCHANGED <<dataset_access, cache_file, cop, data_fs>>
    /\ UNCHANGED <<coreVars, apiVars, moreVars>>

\* A failed call marks the id FAILED and goes on with the next id.
LoadFailedGoesOn == [lp EXCEPT !.i = @ + 1]

LoadFailed == [lp EXCEPT !.pc = "raised"]

\* cfg.uses_api_staging
uses_api_staging == dataset_access \in {"API", "HYBRID"}

\* Where the container sees <hybrid_local_path>/<ds_id>.parquet.
container_hybrid_path(ds_id) == <<"/data", ds_id>>

\* A turn in HYBRID mode fetches although the local file exists.
MustFetchAlways(local) == uses_api_staging

\* The turn reaches stage_dataset_into_sandbox, which calls fetch_fn; local
\* is local_file_path.exists().
MustFetch(local) == uses_api_staging /\ ~(dataset_access = "HYBRID" /\ local)

\* One turn of the loop: the id at position i is resolved locally (HYBRID),
\* staged (API, HYBRID) or taken as mounted, and its entry updated.
LoadStage(data, raises, draft, archived, local) ==
    /\ lp.pc = "stage"
    /\ lp.i <= Len(lp.ds_ids)
    /\ NoCacheOp
    /\ LET ds_id == lp.ds_ids[lp.i]
           calls == IF MustFetch(local) THEN Append(lp.fetched, ds_id)
                    ELSE lp.fetched
       IN  IF MustFetch(local) /\ raises
           THEN /\ cache_file' = write_entries(add_entry(read_entries, ds_id,
                                                         FAILED))
                /\ lp' = [LoadFailed EXCEPT !.fetched = calls]
                /\ UNCHANGED data_fs
           ELSE /\ data_fs' = IF MustFetch(local)
                              THEN stage_dataset_into_sandbox(
                                       data_fs, ds_id, data, draft, archived)
                              ELSE data_fs
                /\ cache_file' = write_entries(add_entry(read_entries, ds_id,
                                                         LOADED))
                /\ lp' = [lp EXCEPT
                            !.i = @ + 1,
                            !.fetched = calls,
                            !.out = Append(@,
                                [id |-> ds_id,
                                 path_in_container |->
                                     IF MustFetch(local)
                                     THEN container_staged_path(ds_id)
                                     ELSE IF uses_api_staging
                                     THEN container_hybrid_path(ds_id)
                                     ELSE container_ro_path(ds_id)])]
    /\ UNCHANGED <<dataset_access, cop>>
    /\ UNCHANGED <<coreVars, apiVars, moreVars>>

LoadReturn ==
    /\ lp.pc = "stage"
    /\ lp.i > Len(lp.ds_ids)
    /\ lp' = [lp EXCEPT !.pc = "returned"]
    /\ UNCHANGED <<dataset_access, cache_file, cop, data_fs>>
    /\ UNCHANGED <<coreVars, apiVars, moreVars>>

InitLoad ==
    /\ fs = [p \in AllPaths |-> NoFile]
    /\ InitStore
    /\ InitMgr
    /\ env_secret = NoSecret
    /\ rand_n = 0
    /\ tokens = {}
    /\ forged = {}
    /\ last = NoCall
    /\ dataset_access \in {"API", "LOCAL_RO", "NONE", "HYBRID"}
    /\ cache_file = <<>>
    /\ cop = [t \in Threads |-> IdleCop]
    /\ lp = IdleLoad
    /\ data_fs = [p \in DataPaths |-> NoFile]
    /\ InitMore

InitSync ==
    /\ InitLoad
    /\ dataset_access \in {"API", "LOCAL_RO"}

\* One event loop: load_pending_datasets, and between its turns the cache
\* functions called by one other task.
NextSync ==
    \/ \E t \in Callers, ds_id \in DsIds, status \in Statuses :
           CacheRead(t, ds_id, status)
    \/ \E t \in Callers : CacheWrite(t)
    \/ \E t \in Callers : ClearCache(t)
    \/ \E ds_ids \in IdLists : LoadBegin(ds_ids)
    \/ \E data \in Fetched, raises \in BOOLEAN, draft \in Drafts,
          archived \in BOOLEAN, local \in BOOLEAN :
           LoadStage(data, raises, draft, archived, local)
    \/ LoadReturn

SpecSync == InitSync /\ [][NextSync]_vars

\* load_pending_datasets alone, in each mode of dataset access.
NextLoad ==
    \/ \E ds_ids \in IdLists : LoadBegin(ds_ids)
    \/ \E data \in Fetched, raises \in BOOLEAN, draft \in Drafts,
          archived \in BOOLEAN, local \in BOOLEAN :
           LoadStage(data, raises, draft, archived, local)
    \/ LoadReturn

SpecLoad == InitLoad /\ [][NextLoad]_vars

\* get_entry_status: the status of the entry with this id, or None.
get_entry_status(entries, ds_id) ==
    LET found == {i \in DOMAIN entries : entries[i].id = ds_id}
    IN  IF found = {} THEN "None"
        ELSE entries[CHOOSE i \in found : \A j \in found : i <= j].status

StatedTransitions ==
    {<<PENDING, LOADED>>, <<PENDING, FAILED>>, <<FAILED, PENDING>>,
     <<LOADED, LOADED>>}

\* C17: whatever cache functions and load_pending calls are made, one after
\* the other, the status of an entry changes only from PENDING to LOADED,
\* from PENDING to FAILED or from FAILED to PENDING: a LOADED entry stays
\* LOADED.
C17_StatusTransitions ==
    [][\A d \in DsIds :
          LET old == get_entry_status(cache_file, d)
              new == get_entry_status(cache_file', d)
          IN  (old # "None" /\ new # "None" /\ old # new) =>
                  <<old, new>> \in StatedTransitions]_vars

\* C18: an id in the cache file stays in it through every step of every
\* call, calls of several threads interleaved, except a step of clear_cache.
C18_EntriesNeverLost ==
    [][\A d \in DsIds :
          (get_entry_status(cache_file, d) # "None"
           /\ get_entry_status(cache_file', d) = "None") =>
              \E t \in Threads : ClearCache(t)]_vars

\* C19: load_pending takes the ids in the order given; a turn whose staging
\* succeeds sets its id LOADED and goes to the next id; the first turn whose
\* staging fails sets its id FAILED and raises; no turn changes the status
\* of another id, earlier or later in the list.
C19_LoadPendingInOrder ==
    /\ [][\A data \in Fetched, raises \in BOOLEAN, draft \in Drafts,
             archived \in BOOLEAN, local \in BOOLEAN :
             LoadStage(data, raises, draft, archived, local) =>
                 LET ds_id == lp.ds_ids[lp.i]
                     failed == MustFetch(local) /\ raises
                 IN  /\ ~failed =>
                            /\ get_entry_status(cache_file', ds_id) = LOADED
                            /\ lp'.pc = "stage"
                            /\ lp'.i = lp.i + 1
                     /\ failed =>
                            /\ get_entry_status(cache_file', ds_id) = FAILED
                            /\ lp'.pc = "raised"
                            /\ lp'.i = lp.i
                     /\ \A d \in DsIds \ {ds_id} :
                            get_entry_status(cache_file', d) =
                                get_entry_status(cache_file, d)]_vars
    /\ [](lp.pc \in {"stage", "returned", "raised"} =>
              /\ Len(lp.out) = lp.i - 1
              /\ \A k \in DOMAIN lp.out : lp.out[k].id = lp.ds_ids[k])

\* A call given two ids has raised at the second: the first is LOADED, the
\* second FAILED.
C19_Witness ==
    /\ lp.pc = "raised"
    /\ lp.i = 2
    /\ Len(lp.out) = 1
    /\ get_entry_status(cache_file, lp.ds_ids[1]) = LOADED
    /\ get_entry_status(cache_file, lp.ds_ids[2]) = FAILED

\* C20: in API mode, when the staging of a dataset has succeeded, the file
\* at the returned path_in_container holds the bytes fetch_fn returned,
\* in TMPFS and in BIND.
C20_StagedFileAtReturnedPath ==
    [][\A data \in Fetched, raises \in BOOLEAN, draft \in Drafts,
          archived \in BOOLEAN, local \in BOOLEAN :
          (LoadStage(data, raises, draft, archived, local)
           /\ dataset_access = "API" /\ ~raises) =>
              LET desc == lp'.out[Len(lp'.out)]
              IN  /\ desc.path_in_container = <<"/data", desc.id>>
                  /\ data_fs'[desc.path_in_container] = data]_vars

\* The calls of fetch_fn that the call of load_pending has made for this id.
FetchCalls(ds_id) ==
    Cardinality({k \in DOMAIN lp.fetched : lp.fetched[k] = ds_id})

C22_StopUnregisters ==
    [][\A k \in Keys, fails \in BOOLEAN :
          Stop(k, fails) =>
              /\ k \notin DOMAIN sessions'
              /\ k \notin DOMAIN sessions => (~fails /\ UNCHANGED vars)]_vars

\* No session can have idled out yet, so the key that is unregistered while
\* the runtime still has its container was stopped, and the removal raised.
C22_Witness ==
    /\ now = 0
    /\ \E k \in Keys : k \notin DOMAIN sessions /\ k \in DOMAIN containers

(***************************************************************************)
(* C23.  stop, then start of the same key.                                 *)
(***************************************************************************)

\* C23: stop(key) followed by start(key) registers the key to a newly
\* created container, never to the one that backed the session before the
\* stop.  Stated for the starts made before any session can have idled
\* out: a key that is then unregistered was stopped or never started, and
\* every container the runtime has at that moment is an old one.
C23_RestartIsNewContainer ==
    [][\A k \in Keys, failed \in SUBSET Keys, get_err \in BOOLEAN :
          (/\ Start(k, failed, get_err)
           /\ now <= IDLE_TIMEOUT_SECS
           /\ k \notin DOMAIN sessions) =>
              /\ next_cid' = next_cid + 1
              /\ sessions'[k].container_id = next_cid'
              /\ \A j \in DOMAIN containers :
                     containers[j].id # sessions'[k].container_id]_vars

(***************************************************************************)
(* C24.  start of a key that is registered.                                *)
(***************************************************************************)

\* C24: start(key) for a key that is registered and not idle creates no
\* container and leaves the registry entry of that key as it was: the same
\* container id, the same last_used; the container it names stays.
C24_StartRegisteredKeepsEntry ==
    [][\A k \in Keys, failed \in SUBSET Keys, get_err \in BOOLEAN :
          (/\ Start(k, failed, get_err)
           /\ k \in DOMAIN sessions
           /\ k \notin IdleKeys) =>
              /\ next_cid' = next_cid
              /\ DOMAIN containers' \subseteq DOMAIN containers
              /\ k \in DOMAIN sessions'
              /\ sessions'[k] = sessions[k]
              /\ k \in DOMAIN containers =>
                     (k \in DOMAIN containers' /\ containers'[k] = containers[k])]_vars

\* The last start swept an idle key away and left a key registered earlier,
\* with the last_used it had.
C24_Witness ==
    \E k \in DOMAIN sessions :
        /\ evicted # {}
        /\ evicted \cap DOMAIN sessions = {}
        /\ sessions[k].last_used < now
        /\ k \in DOMAIN containers
        /\ containers[k].id = sessions[k].container_id

(***************************************************************************)
(* C25.  A start on one key and an exec in progress on another.            *)
(***************************************************************************)

\* Some call of exec on key b has begun and has not yet returned or raised.
ExecInProgress(b) == \E t \in Threads : ex[t].pc \notin RestPcs /\ ex[t].key = b

\* C25: a start on key a, its idle sweep included, never removes the
\* registry entry or the container of another key b while an exec on b is
\* in progress.
C25_StartSparesBusyKey ==
    [][\A a \in Keys, failed \in SUBSET Keys, get_err \in BOOLEAN :
          Start(a, failed, get_err) =>
              \A b \in (DOMAIN sessions) \ {a} :
                  ExecInProgress(b) =>
                      /\ b \in DOMAIN sessions'
                      /\ sessions'[b] = sessions[b]
                      /\ b \in DOMAIN containers => b \in DOMAIN containers']_vars

(***************************************************************************)
(* The REPL server inside a container.  A piece of code is a sequence of   *)
(* statements, each binding a name or reading one.                         *)
(***************************************************************************)

Names == {"x", "y"}
Statements == {"bind", "read"} \X Names
Codes == {<<>>} \cup {<<a>> : a \in Statements} \cup
         {<<a, b>> : a \in Statements, b \in Statements}

\* GLOBAL_NS of the server process of container cid.
Namespace(cid) == IF cid \in DOMAIN GLOBAL_NS THEN GLOBAL_NS[cid] ELSE FreshNs

\* exec(req.code, GLOBAL_NS, GLOBAL_NS): the statements run in order on the
\* one shared dict; reading an unbound name raises NameError, and what was
\* bound before stays bound.
RECURSIVE Run(_, _, _)
Run(code, ns, out) ==
    IF code = <<>> THEN [ns |-> ns, ok |-> TRUE, stdout |-> out, error |-> ""]
    ELSE LET st == Head(code)
         IN  IF st[1] = "bind" THEN Run(Tail(code), ns \cup {st[2]}, out)
             ELSE IF st[2] \in ns THEN Run(Tail(code), ns, Append(out, st[2]))
             ELSE [ns |-> ns, ok |-> FALSE, stdout |-> out, error |-> "NameError"]

\* POST /exec
exec_code(code, ns) == Run(code, ns, <<>>)

\* exec(session_key, code) for code that writes no file: the lookup of the
\* session, last_used, and the request to the REPL of its container.
ReplExec(key, code) ==
    /\ ~Ingesting
    /\ key \in DOMAIN sessions
    /\ ContainerAlive(key, sessions[key].container_id)
    /\ LET cid == sessions[key].container_id
           r == exec_code(code, Namespace(cid))
       IN  /\ GLOBAL_NS' = [c \in (DOMAIN GLOBAL_NS) \cup {cid} |->
                               IF c = cid THEN r.ns ELSE GLOBAL_NS[c]]
           /\ reply' = [ok |-> r.ok, stdout |-> r.stdout, error |-> r.error]
    /\ sessions' = [sessions EXCEPT ![key].last_used = now]
    /\ UNCHANGED <<fs, storeVars, ingVars, session_storage, containers, next_cid,
                   now, evicted, execVars>>
    /\ UNCHANGED <<apiVars, dataVars, cacheIoVars, exportVars, laterVars>>

NextRepl ==
    \/ Tick
    \/ \E k \in Keys, failed \in SUBSET Keys, get_err \in BOOLEAN :
           Start(k, failed, get_err)
    \/ \E k \in Keys, fails \in BOOLEAN : Stop(k, fails)
    \/ \E k \in Keys, code \in Codes : ReplExec(k, code)

SpecRepl == Init /\ [][NextRepl]_vars

(***************************************************************************)
(* C26.  The namespace of a session.                                       *)
(***************************************************************************)

\* C26: a name bound by the code of one exec call stays visible to the later
\* exec calls on the same key as long as the container is not destroyed;
\* and a start of a key that is not registered (after stop or after an idle
\* eviction) gives the key a namespace that holds no name of the user.
C26_NamespacePersistsUntilRestart ==
    [][/\ \A k \in (DOMAIN sessions) \cap (DOMAIN sessions') :
              (/\ sessions'[k].container_id = sessions[k].container_id
               /\ ContainerAlive(k, sessions[k].container_id)
               /\ k \in DOMAIN containers'
               /\ containers'[k] = containers[k]) =>
                  Namespace(sessions[k].container_id) \subseteq
                      (IF sessions'[k].container_id \in DOMAIN GLOBAL_NS'
                       THEN GLOBAL_NS'[sessions'[k].container_id] ELSE FreshNs)
       /\ \A k \in Keys, failed \in SUBSET Keys, get_err \in BOOLEAN :
              (Start(k, failed, get_err) /\ k \notin DOMAIN sessions) =>
                  Namespace(sessions'[k].container_id) = FreshNs]_vars

(***************************************************************************)
(* C27.  The order of the steps of one exec call.                          *)
(***************************************************************************)

\* The stages of a call, each followed by the next.
ExecOrder ==
    {<<"before", "repl">>, <<"repl", "after">>, <<"after", "copy">>,
     <<"copy", "ingest">>, <<"ingest", "done">>}

\* The order of the steps of ingest_files on one file; the last leads to
\* the next file.
IngestOrder ==
    {<<"stat", "select">>, <<"select", "copy">>, <<"select", "link">>,
     <<"copy", "insert">>, <<"insert", "commit_art">>, <<"commit_art", "link">>,
     <<"link", "commit_link">>, <<"commit_link", "delete">>, <<"delete", "stat">>,
     <<"stat", "returned">>}

\* C27: within one exec call the steps occur in the order: before-snapshot,
\* REPL execution, after-snapshot, ingest of the new files, deletion of each
\* ingested source file.  Every step of a call moves it to the next stage
\* or raises; the before-snapshot is taken only in the first stage; files
\* under /session are written only by a call at its REPL stage; the store
\* changes only under a call at its ingest stage; and a source file is
\* deleted only by the call that ingests it, once its rows are committed.
C27_ExecStepOrder ==
    [][/\ \A t \in Threads :
              /\ ex'[t].pc # ex[t].pc =>
                     \/ <<ex[t].pc, ex'[t].pc>> \in ExecOrder
                     \/ ex[t].pc \in RestPcs /\ ex'[t].pc = "before"
                     \/ ex'[t].pc = "raised"
              /\ (ex'[t].before # ex[t].before /\ ex'[t].before # {}) =>
                     ex[t].pc = "before"
              /\ ex'[t].new # ex[t].new /\ ex'[t].new # <<>> => ex[t].pc = "after"
              /\ ing'[t] # ing[t] => ex[t].pc \in {"copy", "ingest"}
              /\ (ing'[t].pc # ing[t].pc /\ ex[t].pc = "ingest" /\ ex'[t].pc = "ingest") =>
                     \/ <<ing[t].pc, ing'[t].pc>> \in IngestOrder
                     \/ ing'[t].pc = "failed"
              /\ (ing[t].pc = "delete" /\ ing'[t].pc # "delete") =>
                     /\ ex[t].pc = "ingest"
                     /\ fs'[Head(ing[t].paths)] = NoFile
                     /\ SelectById(ing[t].artifact_id) # {}
                     /\ txn[t] = EmptyTxn
       /\ (\E k \in Keys, rel \in Rels :
              fs'[SessionPath(k, rel)] \notin {NoFile, fs[SessionPath(k, rel)]}) =>
                 \E t \in Threads : ex[t].pc = "repl" /\ ex'[t].pc # "repl"
       /\ (artifacts' # artifacts \/ links' # links \/ blobs' # blobs) =>
              \E t \in Threads : ex[t].pc = "ingest" /\ ex'[t].pc = "ingest"
       /\ \A t \in Threads, b \in Bases :
              (is_file(fs, StagePath(t, b)) /\ ~is_file(fs', StagePath(t, b))) =>
                  \/ ex[t].pc = "copy"
                  \/ ing[t].pc = "delete" /\ Head(ing[t].paths) = StagePath(t, b)]_vars

\* A call has returned two artifacts, and the two sources it ingested are
\* gone.
C27_Witness ==
    \E t \in Threads :
        /\ ex[t].pc = "done"
        /\ Len(ex[t].artifacts) = 2
        /\ \A i \in 1..2 : ex[t].artifacts[i].id # NULL
        /\ \A b \in Bases : ~is_file(fs, StagePath(t, b))

(***************************************************************************)
(* C28.  The ids of the cache file, calls made one after the other.        *)
(***************************************************************************)

\* One caller: each call of a cache function ends before the next begins.
NextCacheSeq ==
    \/ \E t \in Callers, ds_id \in DsIds, status \in Statuses :
           CacheRead(t, ds_id, status)
    \/ \E t \in Callers : CacheWrite(t)
    \/ \E t \in Callers : ClearCache(t)

SpecCacheSeq == InitIngest /\ [][NextCacheSeq]_vars

\* read_ids
read_ids(file) == [i \in DOMAIN Unique(file, {}) |-> Unique(file, {})[i].id]

\* C28: after any sequence of add_entry, update_entry_status and clear_cache
\* calls, read_entries returns each id at most once, in the order in which
\* the ids were first added (to the file as it is since the last clear):
\* a call that adds an id the file lacks puts it last, a call that adds an
\* id the file has leaves every id where it was, with any status, and
\* clear_cache leaves no id.
C28_IdsUniqueInFirstAddedOrder ==
    /\ [](\A i, j \in DOMAIN read_entries :
              read_entries[i].id = read_entries[j].id => i = j)
    /\ [][/\ \A t \in Callers :
                 CacheWrite(t) =>
                     LET ids == read_ids(cache_file)
                         d == cop[t].ds_id
                     IN  /\ read_ids(cache_file') =
                               IF \E i \in DOMAIN ids : ids[i] = d
                               THEN ids ELSE Append(ids, d)
                         /\ get_entry_status(cache_file', d) = cop[t].status
          /\ \A u \in Callers : ClearCache(u) => read_ids(cache_file') = <<>>
          /\ \A v \in Callers, ds_id \in DsIds, status \in Statuses :
                 CacheRead(v, ds_id, status) => cache_file' = cache_file]_vars

\* Both ids are in the file, each with a status that only a later call on
\* an id already there can have given it after the other.
C28_Witness ==
    /\ \A t \in Callers : cop[t].pc = "idle"
    /\ read_ids(cache_file) = <<"d2", "d1">>
    /\ cache_file[1].status = LOADED
    /\ cache_file[2].status = FAILED

(***************************************************************************)
(* The bytes of the cache file.  The JSON text of a list of entries is a   *)
(* sequence of tokens: the opening of the document, one token per entry,   *)
(* the closing.  A file being written holds a prefix of its text.          *)
(***************************************************************************)

\* The lists of entries written, by their ids.
Datas == {<<>>, <<"d1">>, <<"d1", "d2">>, <<"d2">>}

\* json.dumps({"datasets": [...]})
Dumps(data) == <<"{">> \o data \o <<"}">>

\* json.load: the entries, or JSONDecodeError for a text that is not a whole
\* document (the empty text included).
Loads(text) ==
    IF Len(text) >= 2 /\ text[1] = "{" /\ text[Len(text)] = "}"
    THEN [ok |-> TRUE, data |-> SubSeq(text, 2, Len(text) - 1)]
    ELSE [ok |-> FALSE, data |-> <<>>]

\* _write_cache_data: NamedTemporaryFile(dir=p.parent, delete=False).
WriteOpen(t, data) ==
    /\ cio[t].pc \in {"idle", "done"}
    /\ cache_dir' = [cache_dir EXCEPT ![TmpPath(t)] = <<>>]
    /\ cio' = [cio EXCEPT ![t] = [IdleIo EXCEPT !.pc = "write", !.text = Dumps(data)]]
    /\ UNCHANGED <<coreVars, apiVars, dataVars, replVars, exportVars, laterVars>>

\* tmp.write, tmp.flush and the close of the file: the text reaches the file
\* piece by piece.
WriteFlush(t) ==
    /\ cio[t].pc = "write"
    /\ LET f == cache_dir[TmpPath(t)]
           n == IF f = Absent THEN 1 ELSE Len(f) + 1
       IN  /\ cache_dir' = [cache_dir EXCEPT ![TmpPath(t)] = SubSeq(cio[t].text, 1, n)]
           /\ cio' = [cio EXCEPT ![t].pc =
                         IF n = Len(cio[t].text) THEN "replace" ELSE "write"]
    /\ UNCHANGED <<coreVars, apiVars, dataVars, replVars, exportVars, laterVars>>

\* tmp_path.replace(p): the rename.
WriteReplace(t) ==
    /\ cio[t].pc = "replace"
    /\ cache_dir' = [p \in CacheDirPaths |->
                        IF p = CachePath THEN cache_dir[TmpPath(t)]
                        ELSE IF p = TmpPath(t) THEN Absent
                        ELSE cache_dir[p]]
    /\ cio' = [cio EXCEPT ![t] = IdleIo]
    /\ UNCHANGED <<coreVars, apiVars, dataVars, replVars, exportVars, laterVars>>

\* _read_cache_data: p.exists().
ReadExists(t) ==
    /\ cio[t].pc \in {"idle", "done"}
    /\ cio' = [cio EXCEPT ![t] =
                  IF cache_dir[CachePath] = Absent
                  THEN [IdleIo EXCEPT !.pc = "done", !.kind = "absent"]
                  ELSE [IdleIo EXCEPT !.pc = "open"]]
    /\ UNCHANGED cache_dir
    /\ UNCHANGED <<coreVars, apiVars, dataVars, replVars, exportVars, laterVars>>

\* _read_cache_data: open and json.load; FileNotFoundError and
\* JSONDecodeError give the empty cache.
ReadLoad(t) ==
    /\ cio[t].pc = "open"
    /\ LET f == cache_dir[CachePath]
       IN  cio' = [cio EXCEPT ![t] =
                      IF f = Absent
                      THEN [IdleIo EXCEPT !.pc = "done", !.kind = "absent"]
                      ELSE IF Loads(f).ok
                      THEN [IdleIo EXCEPT !.pc = "done", !.kind = "parsed",
                                          !.text = f, !.data = Loads(f).data]
                      ELSE [IdleIo EXCEPT !.pc = "done", !.kind = "corrupt",
                                          !.text = f]]
    /\ UNCHANGED cache_dir
    /\ UNCHANGED <<coreVars, apiVars, dataVars, replVars, exportVars, laterVars>>

NextCacheIo ==
    \/ \E t \in Threads, data \in Datas : WriteOpen(t, data)
    \/ \E t \in Threads : WriteFlush(t)
    \/ \E t \in Threads : WriteReplace(t)
    \/ \E t \in Threads : ReadExists(t)
    \/ \E t \in Threads : ReadLoad(t)

SpecCacheIo == InitIngest /\ [][NextCacheIo]_vars

(***************************************************************************)
(* C29.  A reader of the cache file while a writer writes.                 *)
(***************************************************************************)

\* C29: a reader of the cache file concurrent with a writer observes the
\* complete previous content or the complete new content, never a partly
\* written or empty file: at every moment the file at the cache path is
\* absent (before the first write) or the whole text of a list that was
\* written, and what a reader has read is such a whole text.
C29_ReaderSeesWholeFile ==
    /\ cache_dir[CachePath] \in {Absent} \cup {Dumps(d) : d \in Datas}
    /\ \A t \in Threads :
           cio[t].pc = "done" =>
               /\ cio[t].kind \in {"absent", "parsed"}
               /\ cio[t].kind = "parsed" =>
                      (cio[t].data \in Datas /\ cio[t].text = Dumps(cio[t].data))

\* A reader has read a whole list while the other thread's write is under
\* way, its temporary file partly written.
C29_Witness ==
    \E r \in Threads, w \in Threads :
        /\ cio[r].pc = "done"
        /\ cio[r].kind = "parsed"
        /\ cio[r].data # <<>>
        /\ cio[w].pc = "write"
        /\ cache_dir[TmpPath(w)] # Absent
        /\ Len(cache_dir[TmpPath(w)]) \in 1..(Len(cio[w].text) - 1)
        /\ cio[w].text # cio[r].text

(***************************************************************************)
(* export_file.  An in-container path is the sequence of its segments:     *)
(* <<"data", "a">> is /data/a.                                             *)
(***************************************************************************)

\* How many calls of export_file a thread makes.
MaxExports == 2

\* The paths callers ask for.
ExportPaths ==
    {<<"data", "a">>, <<"data", "b">>, <<"data", "c">>, <<"etc", "a">>,
     <<"data", "..", "etc", "a">>, <<"data", "..", "data", "a">>, <<"data">>}

\* The regular files of a container: two dataset files under /data, the
\* second over the size cap, and a file of the image elsewhere.
ImageFiles ==
    [p \in {<<"data", "a">>, <<"data", "b">>, <<"etc", "a">>} |->
        IF p = <<"data", "a">> THEN 1
        ELSE IF p = <<"data", "b">> THEN MAX_ARTIFACT_SIZE_MB + 1 ELSE 2]

\* The location a path denotes in the container: each ".." leaves the
\* directory reached so far (the root is its own parent).
RECURSIVE Resolve(_, _)
Resolve(segs, at) ==
    IF segs = <<>> THEN at
    ELSE IF Head(segs) = ".."
    THEN Resolve(Tail(segs), IF at = <<>> THEN <<>> ELSE SubSeq(at, 1, Len(at) - 1))
    ELSE Resolve(Tail(segs), Append(at, Head(segs)))

\* A check of the location the path denotes.
InWhitelistResolved(segs) ==
    Len(Resolve(segs, <<>>)) >= 2 /\ Resolve(segs, <<>>)[1] = "data"

\* container_path.startswith("/data/")
InWhitelist(segs) == Len(segs) >= 2 /\ segs[1] = "data"

\* test -f in the container
TestF(segs) == Resolve(segs, <<>>) \in DOMAIN ImageFiles

\* Path(container_path).name
ExportName(segs) == segs[Len(segs)]

\* export_file up to its call of ingest_files: the checks, the copy out of
\* the container into the exports directory, the temporary copy.
ExportBegin(t, key, path) ==
    /\ ~Ingesting
    /\ xp[t].pc \in {"idle", "done"}
    /\ ex[t].pc \in RestPcs
    /\ xp[t].n < MaxExports
    /\ LET call == [IdleXp EXCEPT !.key = key, !.path = path,
                                  !.known = key \in DOMAIN sessions,
                                  !.n = xp[t].n + 1]
           fail(error) == [xp EXCEPT ![t] = [call EXCEPT !.pc = "done", !.error = error]]
       IN  IF key \notin DOMAIN sessions
           THEN /\ xp' = fail("Session not found")
                /\ UNCHANGED <<fs, ing, exports>>
           ELSE IF ~InWhitelist(path)
           THEN /\ xp' = fail("Path must be in /data/ directory")
                /\ UNCHANGED <<fs, ing, exports>>
           ELSE IF ~ContainerAlive(key, sessions[key].container_id)
           THEN /\ xp' = fail("Failed to check file existence")
                /\ UNCHANGED <<fs, ing, exports>>
           ELSE IF ~TestF(path)
           THEN /\ xp' = fail("File does not exist in container")
                /\ UNCHANGED <<fs, ing, exports>>
           ELSE LET data == ImageFiles[Resolve(path, <<>>)]
                    tmp == StagePath(t, ExportName(path))
                    copied == [fs EXCEPT ![tmp] = data]
                IN  /\ exports' = exports \cup {<<ExportName(path), data>>}
                    /\ fs' = copied
                    /\ ing' = [ing EXCEPT ![t] =
                           [IdleIng EXCEPT !.pc = "stat", !.paths = <<tmp>>,
                                           !.session_id = key]]
                    /\ xp' = [xp EXCEPT ![t] =
                           [call EXCEPT !.pc = "ingest",
                                        !.copied = Resolve(path, <<>>)]]
    /\ UNCHANGED <<storeVars, txn, mgrVars, execVars>>
    /\ UNCHANGED <<apiVars, dataVars, replVars, cacheIoVars, laterVars>>

\* ingest_files runs within export_file.
ExportIngest(t) ==
    /\ xp[t].pc = "ingest"
    /\ \/ IngestStat(t)
       \/ UpsertSelect(t)
       \/ UpsertCopy(t)
       \/ UpsertInsert(t)
       \/ UpsertCommit(t)
       \/ InsertLink(t)
       \/ CommitLink(t)
       \/ FinishFile(t)
       \/ IngestReturn(t)
       \/ IngestRaise(t)

\* After ingest_files: the temporary copy is unlinked and the result
\* returned; an exception gives success False.
ExportReturn(t) ==
    /\ xp[t].pc = "ingest"
    /\ ing[t].pc \in {"returned", "failed"}
    /\ ing' = [ing EXCEPT ![t] = IdleIng]
    /\ xp' = [xp EXCEPT ![t].pc = "done",
                        ![t].success = ing[t].pc = "returned",
                        ![t].error = IF ing[t].pc = "returned" THEN ""
                                     ELSE "Failed to export file"]
    /\ fs' = IF ing[t].pc = "returned"
             THEN SafeDelete(fs, StagePath(t, ExportName(xp[t].path)))
             ELSE fs
    /\ UNCHANGED exports
    /\ UNCHANGED <<storeVars, txn, mgrVars, execVars>>
    /\ UNCHANGED <<apiVars, dataVars, replVars, cacheIoVars, laterVars>>

NextExport ==
    \/ \E k \in Keys : Start(k, {}, FALSE)
    \/ \E k \in Keys : Stop(k, FALSE)
    \/ \E t \in Callers, k \in Keys, path \in ExportPaths : ExportBegin(t, k, path)
    \/ \E t \in Callers : ExportIngest(t)
    \/ \E t \in Callers : ExportReturn(t)

SpecExport == Init /\ [][NextExport]_vars

(***************************************************************************)
(* C30.  What export_file lets out of the container.                       *)
(***************************************************************************)

\* C30: export_file copies and ingests a file only if the location its path
\* denotes lies inside /data; for a path that denotes a location outside
\* /data, one that begins with /data/ and leaves it through ".." included,
\* and for an unknown session, it returns success = false and has copied
\* and ingested nothing.
C30_ExportOnlyFromData ==
    \A t \in Threads :
        xp[t].pc # "idle" =>
            /\ xp[t].copied # NoCopy => InWhitelistResolved(xp[t].path)
            /\ (~InWhitelistResolved(xp[t].path) \/ ~xp[t].known) =>
                   /\ xp[t].pc = "done"
                   /\ ~xp[t].success
                   /\ xp[t].copied = NoCopy

(***************************************************************************)
(* start, after it has run a new container: the session is registered,     *)
(* then /health is polled.  Start is the call up to the registration; the  *)
(* probes follow, one step each, and the call returns when the poll ends.  *)
(***************************************************************************)

\* for _ in range(50)
HEALTH_PROBES == 50

NoPoll == [probes |-> 0, ok |-> FALSE, done |-> FALSE]

\* The poll of the start that ran container cid.
PollOf(cid) == IF cid \in DOMAIN polled THEN polled[cid] ELSE NoPoll

\* The key registered to container cid, if the runtime still has it.
Serving(cid) ==
    {k \in DOMAIN sessions : sessions[k].container_id = cid /\ ContainerAlive(k, cid)}

\* One turn of the loop: _get_repl_url and GET /health.  up: the REPL
\* answers 200.  Any exception counts as no answer; after the last turn
\* the loop is left without one.
HealthProbe(cid, up) ==
    /\ ~Ingesting
    /\ cid \in 1..next_cid
    /\ ~PollOf(cid).done
    /\ up => Serving(cid) # {}
    /\ LET n == PollOf(cid).probes + 1
       IN  polled' = [c \in (DOMAIN polled) \cup {cid} |->
                         IF c = cid
                         THEN [probes |-> n, ok |-> up,
                               done |-> up \/ n = HEALTH_PROBES]
                         ELSE polled[c]]
    /\ UNCHANGED <<baseVars, copyVars, selVars, nsVars>>

NextHealth ==
    \/ \E k \in Keys : Start(k, {}, FALSE)
    \/ \E k \in Keys : Stop(k, FALSE)
    \/ \E cid \in 1..MaxContainers, up \in BOOLEAN : HealthProbe(cid, up)

SpecHealth == Init /\ [][NextHealth]_vars

(***************************************************************************)
(* C31.  The health poll of start.                                         *)
(***************************************************************************)

\* C31: start polls /health of a new container at most 50 times and returns
\* only after a probe answered 200 (else it fails and the key is not left
\* registered): a poll that has ended has had its answer, and a registered
\* key is one whose REPL has answered a probe.
C31_RegisteredOnlyWhenHealthy ==
    /\ \A cid \in DOMAIN polled :
           /\ polled[cid].probes <= HEALTH_PROBES
           /\ polled[cid].done => polled[cid].ok
    /\ \A k \in DOMAIN sessions : PollOf(sessions[k].container_id).ok

(***************************************************************************)
(* C32.  start of an unregistered key whose container exists.              *)
(***************************************************************************)

COPY_ATTEMPTS == 5

\* What one strategy can do: hand over the file; raise NotFound (the two
\* get_archive calls); raise anything else, an archive without the file
\* included; end with a non-zero exit code (the tar in the container).
Outcomes == {"ok", "notfound", "error", "rc"}

CopyBegin(t) ==
    /\ cfc[t].pc \in {"idle", "returned", "raised"}
    /\ cfc' = [cfc EXCEPT ![t] =
                   [pc |-> "try", attempt |-> 0, strategy |-> 1, tries |-> <<0, 0, 0>>]]
    /\ UNCHANGED <<baseVars, healthVars, selVars, nsVars>>

\* The strategy at hand is attempted, with the given outcome.
CopyTry(t, outcome) ==
    LET c == cfc[t]
        tried == [c EXCEPT !.tries[c.strategy] = @ + 1]
    IN  /\ c.pc = "try"
        /\ outcome = "rc" => c.strategy = 3
        /\ outcome = "notfound" => c.strategy # 3
        /\ cfc' = [cfc EXCEPT ![t] =
               IF outcome = "ok"
               THEN [tried EXCEPT !.pc = "returned"]
               ELSE IF outcome = "error" /\ c.attempt = COPY_ATTEMPTS - 1
               THEN \* if attempt == 4: raise
                    [tried EXCEPT !.pc = "raised"]
               ELSE IF c.strategy < 3
               THEN [tried EXCEPT !.strategy = @ + 1]
               ELSE IF c.attempt + 1 < COPY_ATTEMPTS
               THEN [tried EXCEPT !.strategy = 1, !.attempt = @ + 1]
               ELSE \* the loop is over: RuntimeError
                    [tried EXCEPT !.pc = "raised"]]
        /\ UNCHANGED <<baseVars, healthVars, selVars, nsVars>>

NextCopy ==
    \/ \E t \in Threads : CopyBegin(t)
    \/ \E t \in Threads, outcome \in Outcomes : CopyTry(t, outcome)

SpecCopy == Init /\ [][NextCopy]_vars

(***************************************************************************)
(* C33.  The retries of the copy.                                          *)
(***************************************************************************)

\* C33: the copy tries get-archive on the file, get-archive on the parent
\* and the tar in the container, in that order, in turns; it ends within
\* five turns, returning at the first success, and raises only after each
\* of the three strategies has been attempted five times.
C33_RaisesOnlyAfterFiveOfEach ==
    \A t \in Threads :
        LET c == cfc[t]
        IN  /\ \A s \in 1..3 : c.tries[s] <= COPY_ATTEMPTS
            /\ c.tries[1] >= c.tries[2] /\ c.tries[2] >= c.tries[3]
            /\ c.tries[1] <= c.tries[3] + 1
            /\ c.pc = "raised" => \A s \in 1..3 : c.tries[s] = COPY_ATTEMPTS

(***************************************************************************)
(* The store with blobs that go missing while their rows stay.             *)
(***************************************************************************)

NextPruned ==
    \/ NextIngest
    \/ \E s \in Shas : Prune(s)

SpecPruned == InitIngest /\ [][NextPruned]_vars

(***************************************************************************)
(* C34.  A row whose blob is missing.                                      *)
(***************************************************************************)

\* C34: when a committed artifacts row has the sha256 of the file being
\* ingested and the blob of that sha is missing, the upsert writes the blob
\* at the path of that sha, takes the id of that row and goes on to the
\* link without an INSERT: no artifacts row is added.
C34_MissingBlobRestored ==
    [][\A t \in Threads :
          (/\ UpsertSelect(t)
           /\ blobs[ing[t].sha] = "none"
           /\ \E r \in artifacts : r.sha256 = ing[t].sha) =>
              /\ blobs'[ing[t].sha] = "full"
              /\ \A s \in Shas \ {ing[t].sha} : blobs'[s] = blobs[s]
              /\ \E r \in artifacts :
                     r.sha256 = ing[t].sha /\ ing'[t].artifact_id = r.id
              /\ ing'[t].pc = "link"
              /\ artifacts' = artifacts /\ txn' = txn
              /\ next_art' = next_art]_vars

\* A call is at its SELECT with a file whose sha has a committed row and no
\* blob: the blob was pruned after an earlier ingest of that content.
C34_Witness ==
    \E t \in Threads :
        /\ ing[t].pc = "select"
        /\ blobs[ing[t].sha] = "none"
        /\ \E r \in artifacts : r.sha256 = ing[t].sha

(***************************************************************************)
(* exec with code that writes one file, over the size cap or under it, at  *)
(* the top of /session/artifacts or in a subdirectory.                     *)
(***************************************************************************)

LargePrograms ==
    { [writes |-> <<<<"artifacts/a", 3>>>>],
      [writes |-> <<<<"artifacts/d/a", 3>>>>],
      [writes |-> <<<<"artifacts/a", 1>>>>] }

NextLarge ==
    \/ \E k \in Keys : Start(k, {}, FALSE)
    \/ \E t \in Callers, k \in Keys, code \in LargePrograms, timeout \in Timeouts :
           ExecBegin(t, k, code, timeout)
    \/ \E t \in Threads : ExecBefore(t)
    \/ \E t \in Threads, dur \in 0..MaxDur : ExecRepl(t, dur)
    \/ \E t \in Threads : ExecAfter(t)
    \/ \E t \in Threads : ExecCopy(t)
    \/ \E t \in Threads : ExecIngest(t)
    \/ \E t \in Threads : ExecReturn(t)

SpecLarge == Init /\ [][NextLarge]_vars

(***************************************************************************)
(* C35.  A file over the size cap, in BIND mode.                           *)
(***************************************************************************)

\* C35: in BIND mode, when exec has returned a descriptor with id null
\* (the file is too large), a file of that name and size is still in the
\* session's artifacts directory.
C35_TooLargeFileStays ==
    \A t \in Threads :
        (session_storage = "BIND" /\ ex[t].pc = "done") =>
            \A i \in DOMAIN ex[t].artifacts :
                ex[t].artifacts[i].id = NULL =>
                    \E rel \in Rels :
                        /\ Base(rel) = ex[t].artifacts[i].name
                        /\ is_file(fs, BindPath(ex[t].key, rel))
                        /\ Size(fs[BindPath(ex[t].key, rel)]) = ex[t].artifacts[i].size

(***************************************************************************)
(* select_dataset of the tmpfs_api example: the session of the             *)
(* conversation, its cache file on the host, its container.  data_fs is    *)
(* what was staged into container data_cid; a container run later has      *)
(* none of it, except what lies in the host directory bound at /session.   *)
(***************************************************************************)

\* get_session_key()
DataKey == "s1"

\* The data files container cid starts from.
DataIn(cid) ==
    [p \in DataPaths |->
        IF data_cid = cid \/ (session_storage = "BIND" /\ p[1] = "/session/data")
        THEN data_fs[p] ELSE NoFile]

\* select_dataset(dataset_id) for a session that start finds registered,
\* with no key to sweep.  An entry that is LOADED ends the call; else the
\* entry is made PENDING and load_pending_datasets stages the dataset into
\* container_for(session_id) and marks it LOADED, or FAILED when fetching
\* raises.
SelectDataset(ds_id, data, raises, draft, archived) ==
    /\ ~Ingesting
    /\ NoCacheOp
    /\ lp.pc = "idle"
    /\ DataKey \in DOMAIN sessions
    /\ IdleKeys = {}
    /\ ContainerAlive(DataKey, sessions[DataKey].container_id)
    /\ get_entry_status(read_entries, ds_id) # LOADED
    /\ LET cid == sessions[DataKey].container_id
           pending == write_entries(add_entry(read_entries, ds_id, PENDING))
       IN  /\ data_cid' = cid
           /\ IF raises
              THEN /\ data_fs' = DataIn(cid)
                   /\ cache_file' = write_entries(
                          add_entry(Unique(pending, {}), ds_id, FAILED))
              ELSE /\ data_fs' = stage_dataset_into_sandbox(
                          DataIn(cid), ds_id, data, draft, archived)
                   /\ cache_file' = write_entries(
                          add_entry(Unique(pending, {}), ds_id, LOADED))
    /\ evicted' = {}
    /\ UNCHANGED <<fs, storeVars, ingVars, session_storage, sessions, containers,
                   next_cid, now, execVars>>
    /\ UNCHANGED <<apiVars, dataset_access, cop, lp>>
    /\ UNCHANGED <<replVars, cacheIoVars, exportVars, healthVars, copyVars, nsVars>>

InitSelect ==
    /\ InitLoad
    /\ dataset_access = "API"

NextSelect ==
    \/ Tick
    \/ \E k \in Keys, failed \in SUBSET Keys, get_err \in BOOLEAN :
           Start(k, failed, get_err)
    \/ \E k \in Keys, fails \in BOOLEAN : Stop(k, fails)
    \/ \E ds_id \in DsIds, data \in Fetched, raises \in BOOLEAN, draft \in Drafts,
          archived \in BOOLEAN :
           SelectDataset(ds_id, data, raises, draft, archived)

SpecSelect == InitSelect /\ [][NextSelect]_vars

(***************************************************************************)
(* C36.  LOADED entries and the container of the session.                  *)
(***************************************************************************)

\* The dataset's file is in container cid, where staging writes it or where
\* load_pending_datasets reports it.
StagedIn(cid, ds_id) ==
    \/ is_file(DataIn(cid), SessionDataPath(ds_id))
    \/ is_file(DataIn(cid), container_staged_path(ds_id))

\* C36: whenever the cache entry of a dataset is LOADED and the session is
\* registered, the dataset's file is in the container the session is
\* registered to, also after that container replaced one that was destroyed.
C36_LoadedIsInContainer ==
    \A ds_id \in DsIds :
        (/\ DataKey \in DOMAIN sessions
         /\ get_entry_status(read_entries, ds_id) = LOADED) =>
            StagedIn(sessions[DataKey].container_id, ds_id)

(***************************************************************************)
(* The requests the manager itself posts to /exec after the user's code:   *)
(* the cleanup code, and in BIND mode the code that saves the state.  They *)
(* run in the namespace the user's code runs in.                           *)
(***************************************************************************)

\* Names a piece of code can bind: one that only the user's code uses, and
\* names that the manager's code binds too.
AllNames == {"x", "gc", "state"}

Unbound == "unbound"

\* Values the user's code binds, and the objects the manager's code binds.
UserValues == {"u1", "u2"}
Own == "manager"

\* The namespace of a new server process, the names above being unbound.
FreshValues == [n \in AllNames |-> Unbound]

Values(cid) == IF cid \in DOMAIN ns_values THEN ns_values[cid] ELSE FreshValues

\* exec(code, GLOBAL_NS, GLOBAL_NS) for code that assigns to the names of
\* binds.
Assign(ns, binds, value) == [n \in AllNames |-> IF n \in binds THEN value ELSE ns[n]]

\* cleanup_code: "import gc".
CleanupBinds == {"gc"}

\* state_code: "state = {...}".
SaveStateBinds == {"state"}

\* exec(session_key, code) for code that writes no file and assigns value
\* to the names of binds: the user's request, then _cleanup_session_memory
\* and, in BIND mode, _save_python_state.  reached: the manager's requests
\* get to the REPL (their failures are swallowed).
NsExec(key, binds, value, reached) ==
    /\ ~Ingesting
    /\ key \in DOMAIN sessions
    /\ ContainerAlive(key, sessions[key].container_id)
    /\ LET cid == sessions[key].container_id
           user == Assign(Values(cid), binds, value)
           cleaned == IF reached THEN Assign(user, CleanupBinds, Own)
                      ELSE user
           saved == IF reached /\ session_storage = "BIND"
                    THEN Assign(cleaned, SaveStateBinds, Own) ELSE cleaned
       IN  /\ ns_user' = [c \in (DOMAIN ns_user) \cup {cid} |->
                              IF c = cid THEN user ELSE ns_user[c]]
           /\ ns_values' = [c \in (DOMAIN ns_values) \cup {cid} |->
                                IF c = cid THEN saved ELSE ns_values[c]]
    /\ sessions' = [sessions EXCEPT ![key].last_used = now]
    /\ UNCHANGED <<fs, storeVars, ingVars, session_storage, containers, next_cid,
                   now, evicted, execVars>>
    /\ UNCHANGED <<apiVars, dataVars, replVars, cacheIoVars, exportVars>>
    /\ UNCHANGED <<healthVars, copyVars, selVars>>

NextNs ==
    \/ \E k \in Keys : Start(k, {}, FALSE)
    \/ \E k \in Keys : Stop(k, FALSE)
    \/ \E k \in Keys, binds \in SUBSET AllNames, value \in UserValues,
          reached \in BOOLEAN :
           NsExec(k, binds, value, reached)

SpecNs == Init /\ [][NextNs]_vars

(***************************************************************************)
(* C37.  The namespace between two exec calls.                             *)
(***************************************************************************)

\* C37: after an exec call has returned, every name that user code has
\* bound in the namespace of the container has the value user code gave
\* it: the manager's own requests rebind none.
C37_UserNamesKeepValues ==
    \A cid \in DOMAIN ns_user :
        \A n \in AllNames :
            ns_user[cid][n] # Unbound => ns_values[cid][n] = ns_user[cid][n]

(***************************************************************************)
(* C38.  Files written by a call that failed.                              *)
(***************************************************************************)

\* The store holds content c as an artifact linked to session k: some call
\* on k has returned a descriptor for it.
Captured(k, c) ==
    \E r \in artifacts : r.sha256 = Sha(c) /\ CopiesIn(LinkRow(r.id, k), links) > 0

\* C38: every file that user code created under /session/artifacts is
\* returned by some exec call on the session, the call that created it or
\* a later one.  With one caller: when a call on a session has returned,
\* no file within the size cap lies in the session's artifacts directory
\* that no call has returned.
C38_FilesAreReturned ==
    \A t \in Callers :
        (ex[t].pc = "done" /\ ex[t].key \in DOMAIN sessions) =>
            \A rel \in Rels :
                LET c == fs[SessionPath(ex[t].key, rel)]
                IN  (c # NoFile /\ Size(c) <= max_bytes) => Captured(ex[t].key, c)

(***************************************************************************)
(* C39.  A path that is written again, in the two storage modes.           *)
(***************************************************************************)

\* C39: TMPFS and BIND report the same names per call; in particular a call
\* whose code writes a path whose present version was already captured
\* reports it as new in both modes, at the top level or in a subdirectory:
\* when the code is about to run, no such path is in the snapshot that the
\* diff will subtract.
C39_RewriteIsNewInBothModes ==
    \A t \in Callers :
        ex[t].pc = "repl" =>
            \A i \in DOMAIN ex[t].code.writes :
                LET rel == ex[t].code.writes[i][1]
                    c == fs[SessionPath(ex[t].key, rel)]
                IN  (c # NoFile /\ Captured(ex[t].key, c)) => rel \notin ex[t].before

====
